---- MODULE Spec2Model ----
(***************************************************************************)
(* A model of lsim, a digital-logic simulator: the four-valued logic, the  *)
(* circuit description (components, pins, wires), the Logisim importer,    *)
(* the node resolver and the propagation algorithm of the simulator, and   *)
(* the test programs that drive them.                                      *)
(***************************************************************************)
EXTENDS Integers, Sequences, FiniteSets, TLC

VARIABLES
    desc,           \* the CircuitDescription under construction / simulation
    pin_nodes,      \* Circuit Instance: the pin -> node map
    pin_values,     \* Circuit Instance: value asserted by every pin
    dirty,          \* Simulator: ids of the components pending evaluation
    status,         \* Simulator: outcome of the last step
    passes,         \* Simulator: passes made by the last step
    pc,             \* position of the driving program
    hist,           \* what the driving program did and observed so far
    parser,         \* LogisimParser: m_pin_locs, m_wires, and the names of its circuit
    test            \* the locals of the driving test program

vars == <<desc, pin_nodes, pin_values, dirty, status, passes, pc, hist, parser, test>>

-----------------------------------------------------------------------------
(* Bounds of the model                                                     *)

\* largest number of inputs of a gate that is created
MaxInputs == 3
\* number of distinct scheduling priorities a component can end up with
NumPriorities == 2
\* the simulator's safety bound on the passes of one step
MaxPasses == 4
\* largest number of pins put on the wires of a description
MaxWirePins == 4
\* largest number of wires added to a description
MaxWires == 2
\* wire ids a description hands out while its wires are edited
MaxWireIds == 3
\* largest number of sub-circuits a circuit embeds
MaxNested == 2
\* largest number of components created from the palette
MaxComponents == 2
\* largest number of comp elements in an imported document
MaxElements == 2

-----------------------------------------------------------------------------
(* Value domain                                                            *)

VALUE_FALSE == 0
VALUE_TRUE == 1
VALUE_UNDEFINED == 2
VALUE_ERROR == 3

Value == {VALUE_FALSE, VALUE_TRUE, VALUE_UNDEFINED, VALUE_ERROR}

negate_value(input) ==
    IF input = VALUE_TRUE THEN VALUE_FALSE
    ELSE IF input = VALUE_FALSE THEN VALUE_TRUE
    ELSE VALUE_UNDEFINED

NULL == "nullptr"
Priorities == 0 .. (NumPriorities - 1)

-----------------------------------------------------------------------------
(* Circuit description: components, pins, wires                            *)

NoProperties == [k \in {} |-> 0]

\* Component::Component: m_priority has no initialiser, so its value is
\* whatever the caller of the model supplies (any priority).
Component(id, type, inputs, outputs, controls, priority) ==
    [m_id |-> id, m_type |-> type, m_inputs |-> inputs, m_outputs |-> outputs,
     m_controls |-> controls, m_priority |-> priority,
     m_properties |-> NoProperties]

\* A 64-bit value is kept as the pair <<high, low>> of its two 32-bit words.
\* The component ids and the pin indexes of the model are below 2^32: each
\* fits one word.
to_pin_id_t(word) == <<0, word>>

\* x << 32
shift_left_32(x) == <<x[2], 0>>

\* x >> 32
shift_right_32(x) == <<0, x[1]>>

\* x & 0xffffffff
mask_low_32(x) == <<0, x[2]>>

\* the conversion of a 64-bit value to uint32_t keeps the low word
to_uint32(x) == x[2]

RECURSIVE word_or(_, _)
\* the bitwise or of two words
word_or(a, b) ==
    IF a = 0 THEN b
    ELSE IF b = 0 THEN a
    ELSE (IF a % 2 = 1 \/ b % 2 = 1 THEN 1 ELSE 0) + 2 * word_or(a \div 2, b \div 2)

\* x | y
bit_or_64(x, y) == <<word_or(x[1], y[1]), word_or(x[2], y[2])>>

\* a pin id is the 64-bit value (component id << 32) | (index & 0xffffffff);
\* the assertion on the index fails for an index out of range
pin_id(c, index) ==
    IF index < c.m_inputs + c.m_outputs + c.m_controls
    THEN bit_or_64(shift_left_32(to_pin_id_t(c.m_id)), mask_low_32(to_pin_id_t(index)))
    ELSE NULL

\* a decoder that does not shift: it returns the low word, the pin index
component_id_unshifted(pin) == to_uint32(pin)

component_id_from_pin_id(pin) == to_uint32(shift_right_32(pin))

pin_index_from_pin_id(pin) == to_uint32(mask_low_32(pin))

input_pin_id(c, index) ==
    IF index < c.m_inputs THEN pin_id(c, index) ELSE NULL

output_pin_id(c, index) ==
    IF index < c.m_outputs THEN pin_id(c, c.m_inputs + index) ELSE NULL

control_pin_id(c, index) ==
    IF index < c.m_controls THEN pin_id(c, c.m_inputs + c.m_outputs + index)
    ELSE NULL

add_property(c, key, val) ==
    [c EXCEPT !.m_properties =
        [k \in (DOMAIN c.m_properties) \cup {key} |->
            IF k = key THEN val ELSE c.m_properties[k]]]

\* property_value that answers FALSE for a key the component has not
property_value_no_default(c, key, def_value) ==
    IF key \in DOMAIN c.m_properties THEN c.m_properties[key] ELSE VALUE_FALSE

property_value(c, key, def_value) ==
    IF key \in DOMAIN c.m_properties THEN c.m_properties[key] ELSE def_value

CircuitDescription(name) ==
    [m_name |-> name, m_component_id |-> 0, m_components |-> <<>>,
     m_wire_id |-> 0, m_wires |-> <<>>]

\* default properties given to a new component of each type
DefaultProperties(c) ==
    IF c.m_type \in {"CONNECTOR_IN", "CONNECTOR_OUT"}
    THEN add_property(add_property(c, "name", <<"c#", c.m_id>>), "tri_state", FALSE)
    ELSE IF c.m_type = "CONSTANT" THEN add_property(c, "value", VALUE_FALSE)
    ELSE IF c.m_type = "PULL_RESISTOR" THEN add_property(c, "pull_to", VALUE_FALSE)
    ELSE IF c.m_type = "SUB_CIRCUIT" THEN add_property(c, "circuit", "unknown")
    ELSE c

\* m_components is kept as the sequence of the components by id (id + 1 is the
\* index): ids are handed out 0, 1, 2, ... and no operation of the
\* implementation file removes a component
create_component(d, type, input_pins, output_pins, control_pins, priority) ==
    [d EXCEPT !.m_component_id = @ + 1,
              !.m_components = Append(@,
                  DefaultProperties(Component(d.m_component_id, type, input_pins,
                                              output_pins, control_pins, priority)))]

\* the component the last create_component returned
created(d) == d.m_components[d.m_component_id]

component_by_id(d, id) ==
    IF id + 1 \in DOMAIN d.m_components THEN d.m_components[id + 1] ELSE NULL

set_property(d, id, key, val) ==
    [d EXCEPT !.m_components[id + 1] = add_property(@, key, val)]

Wire(id) == [m_id |-> id, m_pins |-> <<>>]

\* create_wire that numbers the new wire by the number of wires there are
create_wire_by_count(d) ==
    [d EXCEPT !.m_wire_id = @ + 1, !.m_wires = Append(@, Wire(Len(d.m_wires)))]

create_wire(d) ==
    [d EXCEPT !.m_wire_id = @ + 1, !.m_wires = Append(@, Wire(d.m_wire_id))]

\* the place of the wire with the given id among the wires of the description
wire_index(d, wire_id) ==
    CHOOSE k \in DOMAIN d.m_wires : d.m_wires[k].m_id = wire_id

\* add_pin that keeps only the pin added last
add_pin_replacing(d, wire_id, pin) ==
    [d EXCEPT !.m_wires[wire_index(d, wire_id)].m_pins = <<pin>>]

\* Wire::add_pin on the wire with the given id
add_pin(d, wire_id, pin) ==
    [d EXCEPT !.m_wires[wire_index(d, wire_id)].m_pins = Append(@, pin)]

\* remove_wire(id): the wire leaves the description, the ids of the others stay
remove_wire(d, wire_id) ==
    [d EXCEPT !.m_wires = SelectSeq(@, LAMBDA w : w.m_id # wire_id)]

\* the pins of a wire without the given pin
WithoutPin(pins, pin) == SelectSeq(pins, LAMBDA p : p # pin)

\* disconnect_pin(pin): the pin leaves every wire it is on
disconnect_pin(d, pin) ==
    [d EXCEPT !.m_wires =
        [k \in DOMAIN @ |-> [@[k] EXCEPT !.m_pins = WithoutPin(@, pin)]]]

\* connect that forgets the second pin
connect_without_pin_b(d, pin_a, pin_b) ==
    add_pin(create_wire(d), d.m_wire_id, pin_a)

connect(d, pin_a, pin_b) ==
    LET w == d.m_wire_id
    IN add_pin(add_pin(create_wire(d), w, pin_a), w, pin_b)

add_connector_in(d, name, data_bits, tri_state, priority) ==
    LET d1 == create_component(d, "CONNECTOR_IN", 0, data_bits, 0, priority)
        id == d.m_component_id
    IN set_property(set_property(d1, id, "name", name), id, "tri_state", tri_state)

add_connector_out(d, name, data_bits, tri_state, priority) ==
    LET d1 == create_component(d, "CONNECTOR_OUT", data_bits, 0, 0, priority)
        id == d.m_component_id
    IN set_property(set_property(d1, id, "name", name), id, "tri_state", tri_state)

\* add_constant that leaves the value property at its default
add_constant_default(d, value, priority) ==
    create_component(d, "CONSTANT", 0, 1, 0, priority)

add_constant(d, value, priority) ==
    set_property(create_component(d, "CONSTANT", 0, 1, 0, priority),
                 d.m_component_id, "value", value)

\* add_pull_resistor that leaves the property at its default
add_pull_resistor_default(d, pull_to, priority) ==
    create_component(d, "PULL_RESISTOR", 0, 1, 0, priority)

add_pull_resistor(d, pull_to, priority) ==
    set_property(create_component(d, "PULL_RESISTOR", 0, 1, 0, priority),
                 d.m_component_id, "pull_to", pull_to)

add_buffer(d, data_bits, priority) ==
    create_component(d, "BUFFER", data_bits, data_bits, 0, priority)

\* add_tristate_buffer that creates a buffer that always drives
add_tristate_buffer_as_buffer(d, data_bits, priority) ==
    create_component(d, "BUFFER", data_bits, data_bits, 1, priority)

add_tristate_buffer(d, data_bits, priority) ==
    create_component(d, "TRISTATE_BUFFER", data_bits, data_bits, 1, priority)

\* add_and_gate that creates an OR gate
add_and_gate_as_or(d, num_inputs, priority) ==
    create_component(d, "OR_GATE", num_inputs, 1, 0, priority)

add_and_gate(d, num_inputs, priority) ==
    create_component(d, "AND_GATE", num_inputs, 1, 0, priority)

add_or_gate(d, num_inputs, priority) ==
    create_component(d, "OR_GATE", num_inputs, 1, 0, priority)

add_not_gate(d, priority) ==
    create_component(d, "NOT_GATE", 1, 1, 0, priority)

add_nand_gate(d, num_inputs, priority) ==
    create_component(d, "NAND_GATE", num_inputs, 1, 0, priority)

add_nor_gate(d, num_inputs, priority) ==
    create_component(d, "NOR_GATE", num_inputs, 1, 0, priority)

add_xor_gate(d, priority) ==
    create_component(d, "XOR_GATE", 2, 1, 0, priority)

add_xnor_gate(d, priority) ==
    create_component(d, "XNOR_GATE", 2, 1, 0, priority)

\* add_sub_circuit creates nothing and returns a null component
add_sub_circuit(d, circuit) == d

add_sub_circuit_result(d, circuit) == NULL

-----------------------------------------------------------------------------
(* Component behaviour: one pure function per component type               *)

\* FALSE dominates; otherwise ERROR, then UNDEFINED, propagate
AndValues(in) ==
    IF \E i \in DOMAIN in : in[i] = VALUE_FALSE THEN VALUE_FALSE
    ELSE IF \E i \in DOMAIN in : in[i] = VALUE_ERROR THEN VALUE_ERROR
    ELSE IF \E i \in DOMAIN in : in[i] = VALUE_UNDEFINED THEN VALUE_UNDEFINED
    ELSE VALUE_TRUE

\* TRUE dominates; otherwise ERROR, then UNDEFINED, propagate
OrValues(in) ==
    IF \E i \in DOMAIN in : in[i] = VALUE_TRUE THEN VALUE_TRUE
    ELSE IF \E i \in DOMAIN in : in[i] = VALUE_ERROR THEN VALUE_ERROR
    ELSE IF \E i \in DOMAIN in : in[i] = VALUE_UNDEFINED THEN VALUE_UNDEFINED
    ELSE VALUE_FALSE

XorValues(a, b) ==
    IF a = VALUE_ERROR \/ b = VALUE_ERROR THEN VALUE_ERROR
    ELSE IF a = VALUE_UNDEFINED \/ b = VALUE_UNDEFINED THEN VALUE_UNDEFINED
    ELSE IF a # b THEN VALUE_TRUE ELSE VALUE_FALSE

\* the values a component puts on its output pins, given the values `in` read
\* on its input pins, `ctl` read on its control pins and `cur` now on its outputs
Behavior(c, in, ctl, cur) ==
    CASE c.m_type = "AND_GATE" -> <<AndValues(in)>>
      [] c.m_type = "OR_GATE" -> <<OrValues(in)>>
      [] c.m_type = "NAND_GATE" -> <<negate_value(AndValues(in))>>
      [] c.m_type = "NOR_GATE" -> <<negate_value(OrValues(in))>>
      [] c.m_type = "NOT_GATE" -> <<negate_value(in[1])>>
      [] c.m_type = "XOR_GATE" -> <<XorValues(in[1], in[2])>>
      [] c.m_type = "XNOR_GATE" -> <<negate_value(XorValues(in[1], in[2]))>>
      [] c.m_type = "BUFFER" -> in
      [] c.m_type = "TRISTATE_BUFFER" ->
            [i \in DOMAIN in |-> IF ctl[1] = VALUE_TRUE THEN in[i] ELSE VALUE_UNDEFINED]
      [] c.m_type = "CONSTANT" -> <<property_value(c, "value", VALUE_FALSE)>>
      [] c.m_type = "PULL_RESISTOR" -> <<property_value(c, "pull_to", VALUE_FALSE)>>
      [] OTHER -> cur

-----------------------------------------------------------------------------
(* Node resolver: pins tied by wires share a node                          *)

Components(d) == {d.m_components[i] : i \in DOMAIN d.m_components}

NumPins(c) == c.m_inputs + c.m_outputs + c.m_controls

PinsOf(c) == {<<c.m_id, i>> : i \in 0 .. (NumPins(c) - 1)}

OutputPinsOf(c) == {<<c.m_id, c.m_inputs + i>> : i \in 0 .. (c.m_outputs - 1)}

\* the pins a component reads: its input and its control pins
ReadPinsOf(c) == PinsOf(c) \ OutputPinsOf(c)

AllPins(d) == UNION {PinsOf(c) : c \in Components(d)}

RECURSIVE PinsBefore(_, _)
PinsBefore(d, id) ==
    IF id = 0 THEN 0 ELSE PinsBefore(d, id - 1) + NumPins(d.m_components[id])

\* every pin starts as a node of its own, numbered in creation order
OwnNode(d, pin) == PinsBefore(d, pin[1]) + pin[2]

\* merge_nodes that moves the pin b alone, not the pins of its node
merge_nodes_single(nm, a, b) ==
    IF a \in DOMAIN nm /\ b \in DOMAIN nm
    THEN [p \in DOMAIN nm |-> IF p = b THEN nm[a] ELSE nm[p]]
    ELSE nm

merge_nodes(nm, a, b) ==
    IF a \in DOMAIN nm /\ b \in DOMAIN nm
    THEN [p \in DOMAIN nm |-> IF nm[p] = nm[b] THEN nm[a] ELSE nm[p]]
    ELSE nm

RECURSIVE MergeWirePins(_, _, _)
MergeWirePins(nm, pins, i) ==
    IF i > Len(pins) THEN nm
    ELSE MergeWirePins(merge_nodes(nm, pins[1], pins[i]), pins, i + 1)

RECURSIVE MergeWires(_, _, _)
MergeWires(nm, wires, k) ==
    IF k > Len(wires) THEN nm
    ELSE MergeWires(MergeWirePins(nm, wires[k].m_pins, 2), wires, k + 1)

\* the pin -> node map of a description: union-find over its wires
NodeMap(d) ==
    MergeWires([p \in AllPins(d) |-> OwnNode(d, p)], d.m_wires, 1)

-----------------------------------------------------------------------------
(* Value resolution of a node from the values its drivers assert           *)

IsPull(d, pin) == d.m_components[pin[1] + 1].m_type = "PULL_RESISTOR"

IsOutputPin(d, pin) == pin \in OutputPinsOf(d.m_components[pin[1] + 1])

Drivers(d, nm, node) ==
    {p \in DOMAIN nm : nm[p] = node /\ IsOutputPin(d, p) /\ ~IsPull(d, p)}

Pulls(d, nm, node) ==
    {p \in DOMAIN nm : nm[p] = node /\ IsOutputPin(d, p) /\ IsPull(d, p)}

PullValue(d, pin) == property_value(d.m_components[pin[1] + 1], "pull_to", VALUE_FALSE)

Resolve(d, nm, pv, node) ==
    LET active == {p \in Drivers(d, nm, node) : pv[p] # VALUE_UNDEFINED}
        pulls == {PullValue(d, p) : p \in Pulls(d, nm, node)} \ {VALUE_UNDEFINED}
    IN  IF \E p \in active : pv[p] = VALUE_ERROR THEN VALUE_ERROR
        ELSE IF (\E p \in active : pv[p] = VALUE_TRUE)
                /\ (\E p \in active : pv[p] = VALUE_FALSE) THEN VALUE_ERROR
        ELSE IF active # {} THEN pv[CHOOSE p \in active : TRUE]
        ELSE IF Cardinality(pulls) = 1 THEN CHOOSE v \in pulls : TRUE
        ELSE IF pulls # {} THEN VALUE_ERROR
        ELSE VALUE_UNDEFINED

\* the value a caller reads on a pin: the resolved value of the pin's node
read_pin(d, nm, pv, pin) == Resolve(d, nm, pv, nm[pin])

-----------------------------------------------------------------------------
(* Simulator: init, write_pin, step                                        *)

\* Readers that stops at the first reader it finds
Readers_first_only(d, nm, nodes) ==
    LET all == {c.m_id : c \in {x \in Components(d) :
                                   \E p \in ReadPinsOf(x) : nm[p] \in nodes}}
    IN  {id \in all : \A other \in all : id <= other}

\* ids of the components that read (input or control pin) one of the nodes
Readers(d, nm, nodes) ==
    {c.m_id : c \in {x \in Components(d) : \E p \in ReadPinsOf(x) : nm[p] \in nodes}}

\* what a component reads on a node during a step: a node that resolved to
\* ERROR earlier in the step stays ERROR until the step ends
ReadNode(d, nm, s, node) ==
    IF node \in s.sticky THEN VALUE_ERROR ELSE Resolve(d, nm, s.pv, node)

\* EvalComponent that does not record the nodes its writes turn to ERROR
EvalComponent_forgetful(d, nm, s, c) ==
    LET id == c.m_id
        in == [i \in 1 .. c.m_inputs |-> ReadNode(d, nm, s, nm[<<id, i - 1>>])]
        ctl == [i \in 1 .. c.m_controls |->
                   ReadNode(d, nm, s, nm[<<id, c.m_inputs + c.m_outputs + i - 1>>])]
        out(i) == <<id, c.m_inputs + i - 1>>
        cur == [i \in 1 .. c.m_outputs |-> s.pv[out(i)]]
        new == Behavior(c, in, ctl, cur)
        changed == {i \in 1 .. c.m_outputs : new[i] # cur[i]}
        pv2 == [p \in DOMAIN s.pv |->
                   IF p[1] = id /\ p \in OutputPinsOf(c)
                   THEN new[p[2] - c.m_inputs + 1] ELSE s.pv[p]]
    IN  [pv |-> pv2,
         next |-> s.next \cup Readers(d, nm, {nm[out(i)] : i \in changed}),
         sticky |-> s.sticky]

\* evaluate one component: read, compute, write the outputs that changed and
\* mark the readers of their nodes dirty for the next pass
EvalComponent(d, nm, s, c) ==
    LET id == c.m_id
        in == [i \in 1 .. c.m_inputs |-> ReadNode(d, nm, s, nm[<<id, i - 1>>])]
        ctl == [i \in 1 .. c.m_controls |->
                   ReadNode(d, nm, s, nm[<<id, c.m_inputs + c.m_outputs + i - 1>>])]
        out(i) == <<id, c.m_inputs + i - 1>>
        cur == [i \in 1 .. c.m_outputs |-> s.pv[out(i)]]
        new == Behavior(c, in, ctl, cur)
        changed == {i \in 1 .. c.m_outputs : new[i] # cur[i]}
        pv2 == [p \in DOMAIN s.pv |->
                   IF p[1] = id /\ p \in OutputPinsOf(c)
                   THEN new[p[2] - c.m_inputs + 1] ELSE s.pv[p]]
        nodes == {nm[out(i)] : i \in changed}
    IN  [pv |-> pv2,
         next |-> s.next \cup Readers(d, nm, nodes),
         sticky |-> s.sticky \cup
                    {n \in nodes : Resolve(d, nm, pv2, n) = VALUE_ERROR}]

\* ascending priority, then creation order
Before(x, y) ==
    \/ x.m_priority < y.m_priority
    \/ x.m_priority = y.m_priority /\ x.m_id <= y.m_id

RECURSIVE EvalAll(_, _, _, _)
EvalAll(d, nm, s, todo) ==
    IF todo = {} THEN s
    ELSE LET c == CHOOSE x \in todo : \A y \in todo : Before(x, y)
         IN EvalAll(d, nm, EvalComponent(d, nm, s, c), todo \ {c})

\* one pass over the dirty set `ds`; the result's next is the next dirty set
Pass(d, nm, s, ds) ==
    EvalAll(d, nm, [s EXCEPT !.next = {}], {c \in Components(d) : c.m_id \in ds})

RECURSIVE StepLoop(_, _, _, _, _)

\* a step loop that gives up at the bound without reporting it
StepLoop_silent(d, nm, s, ds, n) ==
    IF ds = {} \/ n > MaxPasses
    THEN [pv |-> s.pv, dirty |-> ds, status |-> "stable", passes |-> n]
    ELSE LET s2 == Pass(d, nm, s, ds)
         IN StepLoop(d, nm, s2, s2.next, n + 1)

StepLoop(d, nm, s, ds, n) ==
    IF ds = {} THEN [pv |-> s.pv, dirty |-> {}, status |-> "stable", passes |-> n]
    ELSE IF n > MaxPasses
    THEN [pv |-> s.pv, dirty |-> ds, status |-> "nonconverging", passes |-> n]
    ELSE LET s2 == Pass(d, nm, s, ds)
         IN StepLoop(d, nm, s2, s2.next, n + 1)

\* a step that re-seeds the dirty set with every component
step_reseeding(d, nm, pv, ds) ==
    StepLoop(d, nm, [pv |-> pv, next |-> {}, sticky |-> {}],
             {c.m_id : c \in Components(d)}, 0)

\* Simulator::step on the instance (pv, ds) of description d
step(d, nm, pv, ds) ==
    StepLoop(d, nm, [pv |-> pv, next |-> {}, sticky |-> {}], ds, 0)

\* an init that forgets to re-apply the constants and the pull resistors
init_pin_values_undefined(d) == [p \in AllPins(d) |-> VALUE_UNDEFINED]

\* Simulator::init: every pin UNDEFINED, constants and pull resistors
\* re-applied, every component dirty
init_pin_values(d) ==
    [p \in AllPins(d) |->
        LET c == d.m_components[p[1] + 1]
        IN  IF c.m_type \in {"CONSTANT", "PULL_RESISTOR"} /\ p \in OutputPinsOf(c)
            THEN Behavior(c, <<>>, <<>>, <<>>)[1]
            ELSE VALUE_UNDEFINED]

init_dirty(d) == {c.m_id : c \in Components(d)}

\* the state of the pins of a freshly built instance, before init
fresh_pin_values(d) == [p \in AllPins(d) |-> VALUE_UNDEFINED]

\* write_pin: an external write; the readers of the pin's node become dirty
write_pin_values(pv, pin, v) == [pv EXCEPT ![pin] = v]

write_pin_dirty(d, nm, pv, ds, pin, v) ==
    IF pv[pin] = v THEN ds ELSE ds \cup Readers(d, nm, {nm[pin]})

-----------------------------------------------------------------------------
(* Circuits the simulator is exercised on                                  *)

NewComponent(d) == component_by_id(d, d.m_component_id - 1)

\* the priority each created component ends up with, by component id
\* the priorities n components may come to hold, by id
PriorityChoices(n) == [0 .. (n - 1) -> Priorities]

\* Connector IN -> Buffer -> NOT gate -> Connector OUT
ChainCircuit(pr) ==
    LET d1 == add_connector_in(CircuitDescription("chain"), "in", 1, FALSE, pr[0])
        d2 == add_buffer(d1, 1, pr[1])
        d3 == add_not_gate(d2, pr[2])
        d4 == add_connector_out(d3, "out", 1, FALSE, pr[3])
        c(id) == component_by_id(d4, id)
        d5 == connect(d4, output_pin_id(c(0), 0), input_pin_id(c(1), 0))
        d6 == connect(d5, output_pin_id(c(1), 0), input_pin_id(c(2), 0))
    IN  connect(d6, output_pin_id(c(2), 0), input_pin_id(c(3), 0))

\* a NAND gate fed by a connector and by its own output: a feedback loop that
\* oscillates while the connector is TRUE
FeedbackCircuit(pr) ==
    LET d1 == add_connector_in(CircuitDescription("feedback"), "in", 1, FALSE, pr[0])
        d2 == add_nand_gate(d1, 2, pr[1])
        d3 == add_connector_out(d2, "out", 1, FALSE, pr[2])
        c(id) == component_by_id(d3, id)
        d4 == connect(d3, output_pin_id(c(0), 0), input_pin_id(c(1), 0))
        d5 == connect(d4, output_pin_id(c(1), 0), input_pin_id(c(1), 1))
    IN  connect(d5, output_pin_id(c(1), 0), input_pin_id(c(2), 0))

\* two connectors driving one node that an output connector reads
BusCircuit(pr) ==
    LET d1 == add_connector_in(CircuitDescription("bus"), "a", 1, FALSE, pr[0])
        d2 == add_connector_in(d1, "b", 1, FALSE, pr[1])
        d3 == add_connector_out(d2, "out", 1, FALSE, pr[2])
        c(id) == component_by_id(d3, id)
        d4 == connect(d3, output_pin_id(c(0), 0), input_pin_id(c(2), 0))
    IN  connect(d4, output_pin_id(c(1), 0), input_pin_id(c(2), 0))

\* the same bus with a pull resistor attached to the node
PulledBusName(pull_to) ==
    IF pull_to = VALUE_TRUE THEN "bus pulled to TRUE" ELSE "bus pulled to FALSE"

PulledBusCircuit(pr, pull_to) ==
    LET d0 == [BusCircuit(pr) EXCEPT !.m_name = PulledBusName(pull_to)]
        d1 == add_pull_resistor(d0, pull_to, pr[3])
    IN  connect(d1, output_pin_id(NewComponent(d1), 0),
                input_pin_id(component_by_id(d1, 2), 0))

SimCircuits ==
    {ChainCircuit(pr) : pr \in PriorityChoices(4)}
    \cup {FeedbackCircuit(pr) : pr \in PriorityChoices(3)}
    \cup {BusCircuit(pr) : pr \in PriorityChoices(3)}
    \cup {PulledBusCircuit(pr, pull_to) : pr \in PriorityChoices(4),
                                          pull_to \in {VALUE_FALSE, VALUE_TRUE}}

\* the pins an external caller writes: the output pins of input connectors
ExternalPins(d) ==
    UNION {OutputPinsOf(c) : c \in {x \in Components(d) : x.m_type = "CONNECTOR_IN"}}

\* what the caller did last; for a step, the instance it stepped
Before0 == [op |-> "instantiate", pv |-> <<>>, dirty |-> {}, status |-> "idle"]

Snapshot(op) ==
    IF op = "step"
    THEN [op |-> op, pv |-> pin_values, dirty |-> dirty, status |-> status]
    ELSE IF op = "init"
    THEN [Before0 EXCEPT !.op = op, !.status = status]
    ELSE [Before0 EXCEPT !.op = op]

-----------------------------------------------------------------------------
(* SpecSim: an instance of one of the circuits, driven by a caller that    *)
(* writes pins, initialises and steps in any order                         *)

InitSim ==
    /\ desc \in SimCircuits
    /\ pin_nodes = NodeMap(desc)
    /\ pin_values = fresh_pin_values(desc)
    /\ dirty = {}
    /\ status = "idle"
    /\ passes = 0
    /\ pc = "sim"
    /\ hist = Before0
    /\ parser = <<>>
    /\ test = <<>>

SimInit ==
    /\ pc = "sim"
    /\ pin_values' = init_pin_values(desc)
    /\ dirty' = init_dirty(desc)
    /\ status' = "idle"
    /\ passes' = 0
    /\ hist' = Snapshot("init")
    /\ UNCHANGED <<desc, pin_nodes, pc, parser, test>>

SimWritePin ==
    /\ pc = "sim"
    /\ \E pin \in ExternalPins(desc), v \in Value :
        /\ pin_values' = write_pin_values(pin_values, pin, v)
        /\ dirty' = write_pin_dirty(desc, pin_nodes, pin_values, dirty, pin, v)
    /\ hist' = Snapshot("write")
    /\ UNCHANGED <<desc, pin_nodes, status, passes, pc, parser, test>>

SimStep ==
    /\ pc = "sim"
    /\ LET r == step(desc, pin_nodes, pin_values, dirty)
       IN /\ pin_values' = r.pv
          /\ dirty' = r.dirty
          /\ status' = r.status
          /\ passes' = r.passes
    /\ hist' = Snapshot("step")
    /\ UNCHANGED <<desc, pin_nodes, pc, parser, test>>

NextSim == SimInit \/ SimWritePin \/ SimStep

SpecSim == InitSim /\ [][NextSim]_vars

-----------------------------------------------------------------------------
(* Properties of the simulator, checked under SpecSim                      *)

Nodes == {pin_nodes[p] : p \in DOMAIN pin_nodes}

NodeValue(pv, node) == Resolve(desc, pin_nodes, pv, node)

\* C3: every step ends, within the safety bound on its passes, either stable
\* with an empty dirty set or reported non-converging (never any other
\* way), and a non-converging instance can be stepped again.
C3_StepTerminates ==
    hist.op = "step" =>
        /\ status \in {"stable", "nonconverging"}
        /\ passes <= MaxPasses + 1
        /\ (status = "stable") = (dirty = {})
        /\ (status = "nonconverging") = (passes > MaxPasses)

\* a non-converging instance was stepped again and is non-converging again
C3_Witness ==
    /\ hist.op = "step"
    /\ hist.status = "nonconverging"
    /\ status = "nonconverging"

\* C5: a step of an instance whose dirty set is empty changes no pin value
\* and no node value and leaves the dirty set empty.
C5_StepIdempotent ==
    (hist.op = "step" /\ hist.dirty = {}) =>
        /\ pin_values = hist.pv
        /\ \A n \in Nodes : NodeValue(pin_values, n) = NodeValue(hist.pv, n)
        /\ dirty = {}
        /\ status = "stable"

\* a stable instance that carries defined values was stepped once more
C5_Witness ==
    /\ hist.op = "step"
    /\ hist.dirty = {}
    /\ hist.status = "stable"
    /\ \E p \in DOMAIN pin_values : pin_values[p] \in {VALUE_FALSE, VALUE_TRUE}
    /\ \E n \in Nodes : NodeValue(pin_values, n) = VALUE_ERROR

\* the value init leaves on a pin: the property of a constant or of a pull
\* resistor on its output, UNDEFINED everywhere else
ValueAfterInit(d, p) ==
    LET c == d.m_components[p[1] + 1]
    IN  IF p \notin OutputPinsOf(c) THEN VALUE_UNDEFINED
        ELSE IF c.m_type = "CONSTANT" THEN property_value(c, "value", VALUE_UNDEFINED)
        ELSE IF c.m_type = "PULL_RESISTOR" THEN property_value(c, "pull_to", VALUE_UNDEFINED)
        ELSE VALUE_UNDEFINED

\* C12: init(), called in any state of the instance, leaves every pin
\* UNDEFINED except the outputs of constants and pull resistors, which carry
\* their value again, and leaves every component dirty.
C12_InitResets ==
    hist.op = "init" =>
        /\ \A p \in AllPins(desc) : pin_values[p] = ValueAfterInit(desc, p)
        /\ dirty = {c.m_id : c \in Components(desc)}
        /\ status = "idle"

\* init was called on an instance that had been stepped, and re-applied a
\* pull resistor while the other pins went back to UNDEFINED
C12_Witness ==
    /\ hist.op = "init"
    /\ hist.status \in {"stable", "nonconverging"}
    /\ \E p \in AllPins(desc) : IsPull(desc, p) /\ pin_values[p] = VALUE_TRUE
    /\ \E p \in AllPins(desc) : ~IsPull(desc, p) /\ pin_values[p] = VALUE_UNDEFINED
    /\ dirty # {}

IsBus == desc.m_name \in {"bus", PulledBusName(VALUE_TRUE), PulledBusName(VALUE_FALSE)}

BusA == <<0, 0>>
BusB == <<1, 0>>
BusOut == <<2, 0>>

\* C6: a node with two active drivers, one asserting TRUE and one FALSE,
\* resolves to ERROR, whatever the order of the writes; on the bus the output
\* connector then reads ERROR.
C6_ConflictIsError ==
    /\ \A n \in Nodes :
          (\E p, q \in Drivers(desc, pin_nodes, n) :
               pin_values[p] = VALUE_TRUE /\ pin_values[q] = VALUE_FALSE)
          => NodeValue(pin_values, n) = VALUE_ERROR
    /\ (IsBus /\ {pin_values[BusA], pin_values[BusB]} = {VALUE_TRUE, VALUE_FALSE})
          => read_pin(desc, pin_nodes, pin_values, BusOut) = VALUE_ERROR

\* the second driver of the bus was just written against the first
C6_Witness ==
    /\ IsBus
    /\ hist.op = "write"
    /\ pin_values[BusA] = VALUE_FALSE
    /\ pin_values[BusB] = VALUE_TRUE
    /\ read_pin(desc, pin_nodes, pin_values, BusOut) = VALUE_ERROR

ActiveDrivers(n) ==
    {p \in Drivers(desc, pin_nodes, n) : pin_values[p] # VALUE_UNDEFINED}

\* C7: a node without active drivers resolves to the pull value of its pull
\* resistor, or to UNDEFINED without one; a node whose active drivers assert
\* one defined value resolves to that value, pull resistor or not.
C7_PullAndDriver ==
    /\ \A n \in Nodes :
          LET pulls == Pulls(desc, pin_nodes, n)
          IN  /\ (ActiveDrivers(n) = {} /\ pulls = {})
                     => NodeValue(pin_values, n) = VALUE_UNDEFINED
              /\ \A r \in pulls :
                     (ActiveDrivers(n) = {} /\ Cardinality(pulls) = 1)
                     => NodeValue(pin_values, n) = PullValue(desc, r)
              /\ \A v \in {VALUE_FALSE, VALUE_TRUE} :
                     (ActiveDrivers(n) # {}
                      /\ \A p \in ActiveDrivers(n) : pin_values[p] = v)
                     => NodeValue(pin_values, n) = v
    /\ \A v \in {VALUE_FALSE, VALUE_TRUE} :
          (desc.m_name = PulledBusName(v)
           /\ pin_values[BusA] = VALUE_UNDEFINED /\ pin_values[BusB] = VALUE_UNDEFINED)
          => read_pin(desc, pin_nodes, pin_values, BusOut) = v

\* the bus pulled to TRUE is driven FALSE by one connector and reads FALSE
C7_Witness ==
    /\ desc.m_name = PulledBusName(VALUE_TRUE)
    /\ hist.op = "write"
    /\ pin_values[BusA] = VALUE_FALSE
    /\ pin_values[BusB] = VALUE_UNDEFINED
    /\ read_pin(desc, pin_nodes, pin_values, BusOut) = VALUE_FALSE

-----------------------------------------------------------------------------
(* Logisim importer                                                        *)

\* a location attribute "(x,y)": its first and last character, the text
\* before and after the first comma (sep is "," when there is one)
Loc(x, y) == [front |-> "(", x |-> x, sep |-> ",", y |-> y, back |-> ")"]

\* parse_location: false (NULL) unless the text is bracketed and has a comma
parse_location(loc_string) ==
    IF loc_string.front # "(" \/ loc_string.back # ")" THEN NULL
    ELSE IF loc_string.sep # "," THEN NULL
    ELSE <<loc_string.x, loc_string.y>>

COMP_SIZE == 20

\* input_pin_location that takes no account of the negation bubble
input_pin_location_plain(base, index, num_inputs, comp_size, direction, negate_output, negate_input) ==
    <<base[1] - comp_size, base[2]>>

input_pin_location(base, index, num_inputs, comp_size, direction, negate_output, negate_input) ==
    LET axis_length == comp_size + (IF negate_output THEN 10 ELSE 0)
        small == num_inputs <= 3
        skip == IF small
                THEN IF comp_size < 40 THEN <<-5, 10, 10>>
                     ELSE IF comp_size < 60 \/ num_inputs <= 2 THEN <<-10, 20, 20>>
                     ELSE <<-15, 30, 30>>
                ELSE IF num_inputs = 4 /\ comp_size >= 60 THEN <<-5, 20, 0>>
                ELSE <<-5, 10, 10>>
        skipStart == skip[1]
        skipDist == skip[2]
        skipLowerEven == skip[3]
        dy == IF num_inputs % 2 = 1
              THEN skipStart * (num_inputs - 1) + skipDist * index
              ELSE skipStart * num_inputs + skipDist * index
                   + (IF index >= num_inputs \div 2 THEN skipLowerEven ELSE 0)
        dx == axis_length + (IF negate_input THEN 10 ELSE 0)
    IN  IF direction = "LS_NORTH" THEN <<base[1] + dy, base[2] + dx>>
        ELSE IF direction = "LS_SOUTH" THEN <<base[1] + dy, base[2] - dx>>
        ELSE IF direction = "LS_WEST" THEN <<base[1] + dx, base[2] + dy>>
        ELSE <<base[1] - dx, base[2] + dy>>

\* m_pin_locs[loc] = pin
add_pin_location(locs, pin, loc) ==
    [l \in (DOMAIN locs) \cup {loc} |-> IF l = loc THEN pin ELSE locs[l]]

RECURSIVE AddInputLocations(_, _, _, _, _, _)
\* the loop over the inputs of a gate in parse_component
AddInputLocations(locs, c, location, idx, num_inputs, negate_output) ==
    IF idx >= num_inputs THEN locs
    ELSE AddInputLocations(
            add_pin_location(locs, pin_id(c, idx),
                input_pin_location(location, idx, num_inputs, COMP_SIZE, "LS_EAST",
                                   negate_output, FALSE)),
            c, location, idx + 1, num_inputs, negate_output)

\* Circuit::register_component_name: the registry of components by label
register_component_name(names, name, id) ==
    [l \in (DOMAIN names) \cup {name} |-> IF l = name THEN id ELSE names[l]]

\* the label of a comp element: the val of its last "a" child named label
RECURSIVE LabelOf(_, _, _)
LabelOf(props, k, label) ==
    IF k > Len(props) THEN label
    ELSE LabelOf(props, k + 1, IF props[k].name = "label" THEN props[k].val ELSE label)

\* every "a" child has a name and a val
PropsComplete(props) ==
    \A k \in DOMAIN props : "name" \in DOMAIN props[k] /\ "val" \in DOMAIN props[k]

\* the gates the importer creates, with their inputs located on the left
GateComponent(d, comp_type, priority) ==
    CASE comp_type \in {"AND Gate", "NAND Gate"} -> add_and_gate(d, 2, priority)
      [] comp_type \in {"OR Gate", "NOR Gate"} -> add_or_gate(d, 2, priority)

\* parse_component: the description and the pin locations after the element,
\* and whether the element was accepted
parse_component(d, locs, names, comp_node, priority) ==
    LET failed == [ok |-> FALSE, d |-> d, locs |-> locs, names |-> names]
        comp_type == comp_node.name
        location == parse_location(comp_node.loc)
        comp_label == LabelOf(comp_node.a, 1, "")
        registered == IF comp_label # ""
                      THEN register_component_name(names, comp_label, d.m_component_id)
                      ELSE names
        done(d1, locs1) == [ok |-> TRUE, d |-> d1, locs |-> locs1, names |-> registered]
    IN  IF "name" \notin DOMAIN comp_node \/ "loc" \notin DOMAIN comp_node THEN failed
        ELSE IF location = NULL THEN failed
        ELSE IF ~PropsComplete(comp_node.a) THEN failed
        ELSE IF comp_type = "Buffer" THEN
            LET d1 == add_buffer(d, 1, priority)
                c == NewComponent(d1)
            IN done(d1, add_pin_location(
                        add_pin_location(locs, pin_id(c, 0),
                            input_pin_location(location, 0, 1, COMP_SIZE, "LS_EAST",
                                               FALSE, FALSE)),
                        pin_id(c, 1), location))
        ELSE IF comp_type = "Pin" THEN
            LET d1 == add_connector_in(d, "", 1, FALSE, priority)
            IN done(d1, add_pin_location(locs, pin_id(NewComponent(d1), 0), location))
        ELSE IF comp_type \in {"AND Gate", "OR Gate", "NAND Gate", "NOR Gate"} THEN
            LET d1 == GateComponent(d, comp_type, priority)
                c == NewComponent(d1)
                num_inputs == NumPins(c) - 1
            IN done(d1, add_pin_location(
                        AddInputLocations(locs, c, location, 0, num_inputs,
                                          comp_type \in {"NAND Gate", "NOR Gate"}),
                        pin_id(c, NumPins(c) - 1), location))
        ELSE IF comp_type = "NOT Gate" THEN
            LET d1 == add_not_gate(d, priority)
                c == NewComponent(d1)
            IN done(d1, add_pin_location(
                        add_pin_location(locs, pin_id(c, 0),
                            input_pin_location(location, 0, 1, COMP_SIZE, "LS_EAST",
                                               TRUE, FALSE)),
                        pin_id(c, 1), location))
        ELSE IF comp_type = "XOR Gate" THEN
            LET d1 == add_xor_gate(d, priority)
            IN done(d1, add_pin_location(locs, pin_id(NewComponent(d1), 2), location))
        ELSE failed

\* index of the first wire group that holds the position, 0 when none does
point_on_wire(wires, position) ==
    IF \E k \in DOMAIN wires : \E j \in DOMAIN wires[k] : wires[k][j] = position
    THEN CHOOSE k \in DOMAIN wires :
            /\ \E j \in DOMAIN wires[k] : wires[k][j] = position
            /\ \A h \in 1 .. (k - 1) : \A j \in DOMAIN wires[h] : wires[h][j] # position
    ELSE 0

RemoveAt(seq, k) == [j \in 1 .. (Len(seq) - 1) |-> IF j < k THEN seq[j] ELSE seq[j + 1]]

\* index of the first group equal to the (cleared) group, as std::find does
FirstEmpty(wires) == CHOOSE k \in DOMAIN wires :
    wires[k] = <<>> /\ \A h \in 1 .. (k - 1) : wires[h] # <<>>

\* parse_wire: whether the element was accepted, and the wire groups after
\* it. When both ends lie on one and the same group, the group is appended
\* to itself while it is iterated (undefined), then cleared and erased.
parse_wire(wires, wire_node) ==
    LET failed == [ok |-> FALSE, wires |-> wires]
        done(ws) == [ok |-> TRUE, wires |-> ws]
    IN  IF "from" \notin DOMAIN wire_node \/ "to" \notin DOMAIN wire_node THEN failed
        ELSE LET w1 == parse_location(wire_node.from)
                 w2 == parse_location(wire_node.to)
                 node_1 == point_on_wire(wires, w1)
                 node_2 == point_on_wire(wires, w2)
             IN  IF w1 = NULL \/ w2 = NULL THEN failed
                 ELSE IF node_1 = 0 /\ node_2 = 0 THEN done(Append(wires, <<w1, w2>>))
                 ELSE IF node_1 # 0 /\ node_2 # 0 THEN
                     LET merged == [wires EXCEPT ![node_1] = @ \o wires[node_2],
                                                  ![node_2] = <<>>]
                         cleared == [wires EXCEPT ![node_2] = <<>>]
                         after == IF node_1 = node_2 THEN cleared ELSE merged
                     IN done(RemoveAt(after, FirstEmpty(after)))
                 ELSE IF node_1 # 0 THEN done([wires EXCEPT ![node_1] = Append(@, w2)])
                 ELSE done([wires EXCEPT ![node_2] = Append(@, w1)])

\* the pins connect_components connects for one wire group: the first point
\* that is a pin location with every later one
RECURSIVE ConnectGroup(_, _, _, _, _)
ConnectGroup(d, locs, node, j, pin_1) ==
    IF j > Len(node) THEN d
    ELSE IF node[j] \in DOMAIN locs
         THEN IF pin_1 = NULL
              THEN ConnectGroup(d, locs, node, j + 1, locs[node[j]])
              ELSE ConnectGroup(connect(d, pin_1, locs[node[j]]), locs, node, j + 1, pin_1)
         ELSE ConnectGroup(d, locs, node, j + 1, pin_1)

RECURSIVE connect_components(_, _, _, _)
connect_components(d, locs, wires, k) ==
    IF k > Len(wires) THEN d
    ELSE connect_components(ConnectGroup(d, locs, wires[k], 1, NULL), locs, wires, k + 1)

\* Circuit::component_by_name: the component registered under the label
component_by_name(d, names, name) ==
    IF name \in DOMAIN names THEN component_by_id(d, names[name]) ELSE NULL

-----------------------------------------------------------------------------
(* SpecLogisim: the test "Small Logisim Circuit". The document is loaded   *)
(* element by element, the connector In is written and the circuit is run  *)
(* until the pin of the connector Out changes.                             *)

\* the comp elements of the circuit of the test's document
LogisimComps == <<
    [lib |-> 1, loc |-> Loc(240, 170), name |-> "Buffer", a |-> <<>>],
    [lib |-> 0, loc |-> Loc(190, 170), name |-> "Pin",
     a |-> <<[name |-> "label", val |-> "In"]>>],
    [lib |-> 1, loc |-> Loc(300, 170), name |-> "NOT Gate", a |-> <<>>],
    [lib |-> 0, loc |-> Loc(320, 170), name |-> "Pin",
     a |-> <<[name |-> "facing", val |-> "west"],
             [name |-> "output", val |-> "true"],
             [name |-> "label", val |-> "Out"]>>] >>

\* its wire elements
LogisimWires == <<
    [from |-> Loc(190, 170), to |-> Loc(220, 170)],
    [from |-> Loc(240, 170), to |-> Loc(270, 170)],
    [from |-> Loc(300, 170), to |-> Loc(320, 170)] >>

\* the same circuit drawn with the middle wire in three segments
SegmentedWires == <<
    [from |-> Loc(190, 170), to |-> Loc(220, 170)],
    [from |-> Loc(240, 170), to |-> Loc(250, 170)],
    [from |-> Loc(250, 170), to |-> Loc(260, 170)],
    [from |-> Loc(260, 170), to |-> Loc(270, 170)],
    [from |-> Loc(300, 170), to |-> Loc(320, 170)] >>

\* the orders in which the elements of a sequence can stand in a document
Orders(seq) ==
    {[i \in DOMAIN seq |-> seq[f[i]]] :
        f \in {g \in [DOMAIN seq -> DOMAIN seq] :
                  \A i, j \in DOMAIN seq : i # j => g[i] # g[j]}}

LogisimDocuments ==
    {[comps |-> LogisimComps, wires |-> ws] :
        ws \in Orders(LogisimWires) \cup Orders(SegmentedWires)}

NewParser == [m_pin_locs |-> <<>>, m_wires |-> <<>>, m_circuit_names |-> <<>>]

InitLogisim ==
    /\ desc = CircuitDescription("logisim")
    /\ pin_nodes = <<>>
    /\ pin_values = <<>>
    /\ dirty = {}
    /\ status = "idle"
    /\ passes = 0
    /\ pc = "parse_component"
    /\ hist = Before0
    /\ parser = NewParser
    /\ \E doc \in LogisimDocuments, pr \in PriorityChoices(Len(LogisimComps)),
          v \in {VALUE_FALSE, VALUE_TRUE} :
          test = [doc |-> doc, k |-> 1, pr |-> pr, v |-> v, start |-> VALUE_UNDEFINED]

\* parse_xml, one comp element: the result of parse_component is ignored
LoadComponent ==
    /\ pc = "parse_component"
    /\ LET r == parse_component(desc, parser.m_pin_locs, parser.m_circuit_names,
                                test.doc.comps[test.k], test.pr[desc.m_component_id])
       IN /\ desc' = r.d
          /\ parser' = [parser EXCEPT !.m_pin_locs = r.locs, !.m_circuit_names = r.names]
    /\ test' = [test EXCEPT !.k = IF test.k = Len(test.doc.comps) THEN 1 ELSE @ + 1]
    /\ pc' = IF test.k = Len(test.doc.comps) THEN "parse_wire" ELSE pc
    /\ hist' = [Before0 EXCEPT !.op = "parse_component"]
    /\ UNCHANGED <<pin_nodes, pin_values, dirty, status, passes>>

\* both ends of the wire lie on one and the same group of m_wires
SameGroup(wires, wire_node) ==
    /\ "from" \in DOMAIN wire_node /\ "to" \in DOMAIN wire_node
    /\ parse_location(wire_node.from) # NULL
    /\ parse_location(wire_node.to) # NULL
    /\ point_on_wire(wires, parse_location(wire_node.from)) # 0
    /\ point_on_wire(wires, parse_location(wire_node.from))
         = point_on_wire(wires, parse_location(wire_node.to))

\* parse_xml, one wire element: the result of parse_wire is ignored. Appending
\* a group to itself while iterating over it is undefined: the call returns
\* with the group cleared and erased, or the process crashes.
LoadWire ==
    /\ pc = "parse_wire"
    /\ LET wire_node == test.doc.wires[test.k]
           r == parse_wire(parser.m_wires, wire_node)
       IN \E outcome \in (IF SameGroup(parser.m_wires, wire_node)
                          THEN {"returned", "crashed"} ELSE {"returned"}) :
             /\ parser' = IF outcome = "crashed" THEN parser
                          ELSE [parser EXCEPT !.m_wires = r.wires]
             /\ pc' = IF outcome = "crashed" THEN "crashed"
                      ELSE IF test.k = Len(test.doc.wires) THEN "connect_components"
                      ELSE pc
    /\ test' = [test EXCEPT !.k = @ + 1]
    /\ hist' = [Before0 EXCEPT !.op = "parse_wire"]
    /\ UNCHANGED <<desc, pin_nodes, pin_values, dirty, status, passes>>

\* parse_xml, connect_components; load_logisim returns true and the test
\* looks up In and Out
LoadConnect ==
    /\ pc = "connect_components"
    /\ desc' = connect_components(desc, parser.m_pin_locs, parser.m_wires, 1)
    /\ pin_nodes' = NodeMap(desc')
    /\ pin_values' = fresh_pin_values(desc')
    /\ pc' = IF "In" \notin DOMAIN parser.m_circuit_names
                \/ "Out" \notin DOMAIN parser.m_circuit_names
             THEN "require_failed" ELSE "change_data"
    /\ hist' = [Before0 EXCEPT !.op = "connect_components"]
    /\ UNCHANGED <<dirty, status, passes, parser, test>>

LogisimIn == pin_id(component_by_name(desc, parser.m_circuit_names, "In"), 0)
LogisimOut == pin_id(component_by_name(desc, parser.m_circuit_names, "Out"), 0)

\* in->change_data(v), and the entry of simulation_until_pin_change(out->pin(0))
LogisimChangeData ==
    /\ pc = "change_data"
    /\ pin_values' = write_pin_values(pin_values, LogisimIn, test.v)
    /\ dirty' = write_pin_dirty(desc, pin_nodes, pin_values, dirty, LogisimIn, test.v)
    /\ test' = [test EXCEPT !.start = read_pin(desc, pin_nodes, pin_values, LogisimOut)]
    /\ pc' = "tick"
    /\ hist' = [Before0 EXCEPT !.op = "write"]
    /\ UNCHANGED <<desc, pin_nodes, status, passes, parser>>

\* simulation_until_pin_change: one step
LogisimTick ==
    /\ pc = "tick"
    /\ LET r == step(desc, pin_nodes, pin_values, dirty)
       IN /\ pin_values' = r.pv
          /\ dirty' = r.dirty
          /\ status' = r.status
          /\ passes' = r.passes
    /\ hist' = Snapshot("step")
    /\ pc' = "test"
    /\ UNCHANGED <<desc, pin_nodes, parser, test>>

\* simulation_until_pin_change: return when the pin differs from its value at
\* call time or the step did not converge, else step again
LogisimTest ==
    /\ pc = "test"
    /\ pc' = IF read_pin(desc, pin_nodes, pin_values, LogisimOut) # test.start
                \/ status = "nonconverging"
             THEN "done" ELSE "tick"
    /\ UNCHANGED <<desc, pin_nodes, pin_values, dirty, status, passes, hist, parser, test>>

NextLogisim ==
    \/ LoadComponent
    \/ LoadWire
    \/ LoadConnect
    \/ LogisimChangeData
    \/ LogisimTick
    \/ LogisimTest

SpecLogisim == InitLogisim /\ [][NextLogisim]_vars

\* C1: in the imported circuit In -> Buffer -> NOT gate -> Out, once v is
\* written to In and the circuit has been stepped until stable, and when the
\* run until Out's pin changes has returned, Out reads the negation of v:
\* FALSE for TRUE and TRUE for FALSE.
C1_OutIsNegation ==
    (pc \in {"test", "done"} /\ (status = "stable" \/ pc = "done")) =>
        /\ status = "stable"
        /\ test.v = VALUE_TRUE
              => read_pin(desc, pin_nodes, pin_values, LogisimOut) = VALUE_FALSE
        /\ test.v = VALUE_FALSE
              => read_pin(desc, pin_nodes, pin_values, LogisimOut) = VALUE_TRUE

\* the run returned after TRUE was written to In, for a document whose middle
\* wire was put together from its segments
C1_Witness ==
    /\ pc = "done"
    /\ test.v = VALUE_TRUE
    /\ Len(test.doc.wires) > Len(parser.m_wires)
    /\ Len(desc.m_wires) = Len(LogisimWires)
    /\ read_pin(desc, pin_nodes, pin_values, LogisimOut) = VALUE_FALSE

-----------------------------------------------------------------------------
(* SpecAndTest: the test "AND-gate functions as expected", for a gate of   *)
(* 2 .. MaxInputs inputs, each wired to one of the constants, and for      *)
(* constants of every value                                                *)

\* and_gate->pin(num_inputs): the output pin of the gate
AndOut == <<Cardinality(Value), test.n>>
\* out->pin(0)
OutPin == <<Cardinality(Value) + 1, 0>>

RECURSIVE AddConstants(_, _, _)
\* in_0, in_1, ...: one Constant for every value, FALSE first. The constants
\* read no node and init applies their values, so that their order in a step
\* is of no effect: they are given one priority, whichever it is.
AddConstants(d, priority, value) ==
    IF value \notin Value THEN d
    ELSE AddConstants(add_constant(d, value, priority), priority, value + 1)

RECURSIVE ConnectInputs(_, _, _)
\* connect_pins(in_x->pin(0), and_gate->pin(i)) for every input of the gate
ConnectInputs(d, assign, i) ==
    IF i > Len(assign) THEN d
    ELSE ConnectInputs(connect(d, <<assign[i], 0>>, <<Cardinality(Value), i - 1>>),
                       assign, i + 1)

InitAndTest ==
    /\ desc = CircuitDescription("and test")
    /\ pin_nodes = <<>>
    /\ pin_values = <<>>
    /\ dirty = {}
    /\ status = "idle"
    /\ passes = 0
    /\ pc = "create_component"
    /\ hist = Before0
    /\ parser = <<>>
    /\ \E n \in 2 .. MaxInputs :
          \E assign \in [1 .. n -> Value], pr \in PriorityChoices(3) :
              test = [n |-> n, assign |-> assign, pr |-> pr]

\* the constants, the gate and the output connector are created
AndCreate ==
    /\ pc = "create_component"
    /\ LET d1 == AddConstants(desc, test.pr[0], VALUE_FALSE)
           d2 == add_and_gate(d1, test.n, test.pr[1])
       IN desc' = add_connector_in(d2, "", 1, FALSE, test.pr[2])
    /\ pin_nodes' = NodeMap(desc')
    /\ pin_values' = fresh_pin_values(desc')
    /\ pc' = "simulation_init"
    /\ hist' = [Before0 EXCEPT !.op = "create_component"]
    /\ UNCHANGED <<dirty, status, passes, parser, test>>

\* circuit->simulation_init()
AndSimulationInit ==
    /\ pc = "simulation_init"
    /\ pin_values' = init_pin_values(desc)
    /\ dirty' = init_dirty(desc)
    /\ status' = "idle"
    /\ passes' = 0
    /\ pc' = "connect_pins"
    /\ hist' = [Before0 EXCEPT !.op = "init"]
    /\ UNCHANGED <<desc, pin_nodes, parser, test>>

\* the connect_pins calls of the test and of its section
AndConnect ==
    /\ pc = "connect_pins"
    /\ desc' = ConnectInputs(connect(desc, AndOut, OutPin), test.assign, 1)
    /\ pin_nodes' = NodeMap(desc')
    /\ pc' = "tick"
    /\ hist' = [Before0 EXCEPT !.op = "connect_pins"]
    /\ UNCHANGED <<pin_values, dirty, status, passes, parser, test>>

\* simulate_until_pin_change: circuit->simulation_tick()
AndTick ==
    /\ pc = "tick"
    /\ LET r == step(desc, pin_nodes, pin_values, dirty)
       IN /\ pin_values' = r.pv
          /\ dirty' = r.dirty
          /\ status' = r.status
          /\ passes' = r.passes
    /\ hist' = Snapshot("step")
    /\ pc' = "while"
    /\ UNCHANGED <<desc, pin_nodes, parser, test>>

\* Circuit::value_changed: the tick changed the value on the pin
value_changed(pin) ==
    read_pin(desc, pin_nodes, pin_values, pin) # read_pin(desc, pin_nodes, hist.pv, pin)

\* simulate_until_pin_change: while (!circuit->value_changed(pin))
AndWhile ==
    /\ pc = "while"
    /\ pc' = IF value_changed(OutPin) THEN "require" ELSE "tick"
    /\ UNCHANGED <<desc, pin_nodes, pin_values, dirty, status, passes, hist, parser, test>>

NextAndTest ==
    \/ AndCreate
    \/ AndSimulationInit
    \/ AndConnect
    \/ AndTick
    \/ AndWhile

SpecAndTest == InitAndTest /\ [][NextAndTest]_vars

\* what the output connector reads
OutValue == read_pin(desc, pin_nodes, pin_values, OutPin)

InputsOfTest == {test.assign[i] : i \in DOMAIN test.assign}

\* C2: with two inputs, each fed by the constant TRUE or FALSE, the loop
\* returns and OUT then reads TRUE if both inputs are fed by TRUE and FALSE
\* for the three other assignments.
C2_AndTest ==
    (test.n = 2 /\ InputsOfTest \subseteq {VALUE_FALSE, VALUE_TRUE}) =>
        /\ pc = "while" => value_changed(OutPin)
        /\ pc = "require" =>
              /\ test.assign = <<VALUE_TRUE, VALUE_TRUE>> => OutValue = VALUE_TRUE
              /\ test.assign = <<VALUE_FALSE, VALUE_FALSE>> => OutValue = VALUE_FALSE
              /\ test.assign = <<VALUE_TRUE, VALUE_FALSE>> => OutValue = VALUE_FALSE
              /\ test.assign = <<VALUE_FALSE, VALUE_TRUE>> => OutValue = VALUE_FALSE

\* the section "all inputs are true" reached its REQUIRE
C2_Witness ==
    /\ pc = "require"
    /\ test.assign = <<VALUE_TRUE, VALUE_TRUE>>
    /\ OutValue = VALUE_TRUE

\* C4: the run until the pin changes returns when the watched pin never
\* changes: when the loop tests the pin after a tick that left it unchanged
\* and left nothing to evaluate, so that no later tick can change it, the
\* loop is left.
C4_Returns ==
    [][(pc = "while" /\ ~value_changed(OutPin) /\ dirty = {}) => pc' = "require"]_vars

\* C8: once the circuit is stable the gate's output, and with it OUT, is FALSE
\* when at least one input is FALSE, TRUE exactly when all inputs are TRUE,
\* and UNDEFINED or ERROR in every other case.
C8_AndGate ==
    (pc \in {"while", "require"} /\ status = "stable") =>
        /\ pin_values[AndOut] = OutValue
        /\ VALUE_FALSE \in InputsOfTest => OutValue = VALUE_FALSE
        /\ (OutValue = VALUE_TRUE) = (InputsOfTest = {VALUE_TRUE})
        /\ (VALUE_FALSE \notin InputsOfTest /\ InputsOfTest # {VALUE_TRUE})
              => OutValue \in {VALUE_UNDEFINED, VALUE_ERROR}

\* a gate of three inputs fed FALSE, UNDEFINED and ERROR settled on FALSE
C8_Witness ==
    /\ pc = "require"
    /\ status = "stable"
    /\ test.assign = <<VALUE_ERROR, VALUE_UNDEFINED, VALUE_FALSE>>
    /\ OutValue = VALUE_FALSE

-----------------------------------------------------------------------------
(* SpecSub: a parent circuit is built around the circuit "two inputs ->    *)
(* AND gate -> OUT" and compared with that circuit                         *)

\* the flat circuit: connectors a and b, the gate, the output connector
FlatCircuit(pr) ==
    LET d1 == add_connector_in(CircuitDescription("flat"), "a", 1, FALSE, pr[0])
        d2 == add_connector_in(d1, "b", 1, FALSE, pr[1])
        d3 == add_and_gate(d2, 2, pr[2])
        d4 == add_connector_out(d3, "out", 1, FALSE, pr[3])
        c(id) == component_by_id(d4, id)
        d5 == connect(d4, output_pin_id(c(0), 0), input_pin_id(c(2), 0))
        d6 == connect(d5, output_pin_id(c(1), 0), input_pin_id(c(2), 1))
    IN  connect(d6, output_pin_id(c(2), 0), input_pin_id(c(3), 0))

\* what OUT of the flat circuit reads once a and b are written and the
\* instance has been stepped
FlatOut(a, b, pr) ==
    LET d == FlatCircuit(pr)
        nm == NodeMap(d)
        pv0 == fresh_pin_values(d)
        pv1 == write_pin_values(pv0, <<0, 0>>, a)
        ds1 == write_pin_dirty(d, nm, pv0, {}, <<0, 0>>, a)
        pv2 == write_pin_values(pv1, <<1, 0>>, b)
        ds2 == write_pin_dirty(d, nm, pv1, ds1, <<1, 0>>, b)
    IN  read_pin(d, nm, step(d, nm, pv2, ds2).pv, <<3, 0>>)

InitSub ==
    /\ desc = CircuitDescription("parent")
    /\ pin_nodes = <<>>
    /\ pin_values = <<>>
    /\ dirty = {}
    /\ status = "idle"
    /\ passes = 0
    /\ pc = "add_components"
    /\ hist = Before0
    /\ parser = <<>>
    /\ \E a \in Value, b \in Value, pr \in PriorityChoices(4) :
          test = [a |-> a, b |-> b, pr |-> pr, sub |-> NULL]

\* the parent: connectors a and b, the sub-circuit, the output connector
SubAddComponents ==
    /\ pc = "add_components"
    /\ LET d1 == add_connector_in(desc, "a", 1, FALSE, test.pr[0])
           d2 == add_connector_in(d1, "b", 1, FALSE, test.pr[1])
           d3 == add_sub_circuit(d2, "flat")
       IN /\ desc' = add_connector_out(d3, "out", 1, FALSE, test.pr[2])
          /\ test' = [test EXCEPT !.sub = add_sub_circuit_result(d2, "flat")]
    /\ pc' = "connect"
    /\ hist' = [Before0 EXCEPT !.op = "add_components"]
    /\ UNCHANGED <<pin_nodes, pin_values, dirty, status, passes, parser>>

\* the pin of the parent's output connector
ParentOut == <<desc.m_component_id - 1, 0>>

\* the pins of the sub-circuit are wired to the connectors. There is no
\* component to take the pins of: a caller that tests the pointer leaves the
\* connectors unwired, one that does not dereferences a null pointer.
SubConnect ==
    /\ pc = "connect"
    /\ test.sub = NULL
    /\ \E outcome \in {"unwired", "crashed"} :
          pc' = IF outcome = "crashed" THEN "crashed" ELSE "write_pin"
    /\ pin_nodes' = NodeMap(desc)
    /\ pin_values' = fresh_pin_values(desc)
    /\ hist' = [Before0 EXCEPT !.op = "connect"]
    /\ UNCHANGED <<desc, dirty, status, passes, parser, test>>

\* a and b are written to the parent's input connectors
SubWritePins ==
    /\ pc = "write_pin"
    /\ LET pv1 == write_pin_values(pin_values, <<0, 0>>, test.a)
           ds1 == write_pin_dirty(desc, pin_nodes, pin_values, dirty, <<0, 0>>, test.a)
       IN /\ pin_values' = write_pin_values(pv1, <<1, 0>>, test.b)
          /\ dirty' = write_pin_dirty(desc, pin_nodes, pv1, ds1, <<1, 0>>, test.b)
    /\ pc' = "step"
    /\ hist' = [Before0 EXCEPT !.op = "write"]
    /\ UNCHANGED <<desc, pin_nodes, status, passes, parser, test>>

SubStep ==
    /\ pc = "step"
    /\ LET r == step(desc, pin_nodes, pin_values, dirty)
       IN /\ pin_values' = r.pv
          /\ dirty' = r.dirty
          /\ status' = r.status
          /\ passes' = r.passes
    /\ hist' = Snapshot("step")
    /\ pc' = "compare"
    /\ UNCHANGED <<desc, pin_nodes, parser, test>>

NextSub == SubAddComponents \/ SubConnect \/ SubWritePins \/ SubStep

SpecSub == InitSub /\ [][NextSub]_vars

\* C9: once the parent has converged its OUT reads what OUT of the flat
\* circuit reads for the same two input values.
C9_SubCircuitEqualsFlat ==
    (pc = "compare" /\ status = "stable") =>
        read_pin(desc, pin_nodes, pin_values, ParentOut) = FlatOut(test.a, test.b, test.pr)

-----------------------------------------------------------------------------
(* SpecWire: wires are added to a description, by connect and by           *)
(* create_wire and add_pin, and the pins are resolved to nodes             *)

\* a connector, a NOT gate and an output connector, not yet wired
WirePalette(pr) ==
    add_connector_out(
        add_not_gate(
            add_connector_in(CircuitDescription("wires"), "in", 1, FALSE, pr[0]),
            pr[1]),
        "out", 1, FALSE, pr[2])

InitWire ==
    /\ \E priority \in Priorities : desc = WirePalette([id \in 0 .. 2 |-> priority])
    /\ pin_nodes = NodeMap(desc)
    /\ pin_values = fresh_pin_values(desc)
    /\ dirty = {}
    /\ status = "idle"
    /\ passes = 0
    /\ pc = "edit"
    /\ hist = Before0
    /\ parser = <<>>
    /\ test = [tied |-> <<>>]

RECURSIVE PinsOnWires(_, _)
\* the number of pins on the wires from the k-th on
PinsOnWires(wires, k) ==
    IF k > Len(wires) THEN 0 ELSE Len(wires[k].m_pins) + PinsOnWires(wires, k + 1)

\* connect(pin_a, pin_b); the test notes the pins it tied together
WireConnect ==
    /\ pc = "edit"
    /\ desc.m_wire_id < MaxWires
    /\ PinsOnWires(desc.m_wires, 1) + 2 <= MaxWirePins
    /\ \E pin_a \in AllPins(desc), pin_b \in AllPins(desc) :
          /\ desc' = connect(desc, pin_a, pin_b)
          /\ test' = [test EXCEPT !.tied = Append(@, {pin_a, pin_b})]
    /\ pin_nodes' = NodeMap(desc')
    /\ UNCHANGED <<pin_values, dirty, status, passes, pc, hist, parser>>

\* create_wire()
WireCreate ==
    /\ pc = "edit"
    /\ desc.m_wire_id < MaxWires
    /\ desc' = create_wire(desc)
    /\ test' = [test EXCEPT !.tied = Append(@, {})]
    /\ pin_nodes' = NodeMap(desc')
    /\ UNCHANGED <<pin_values, dirty, status, passes, pc, hist, parser>>

\* wire->add_pin(pin) on one of the wires, with a pin that is not yet on it
WireAddPin ==
    /\ pc = "edit"
    /\ \E w \in DOMAIN desc.m_wires, pin \in AllPins(desc) :
          /\ PinsOnWires(desc.m_wires, 1) < MaxWirePins
          /\ pin \notin test.tied[w]
          /\ desc' = add_pin(desc, desc.m_wires[w].m_id, pin)
          /\ test' = [test EXCEPT !.tied[w] = @ \cup {pin}]
    /\ pin_nodes' = NodeMap(desc')
    /\ UNCHANGED <<pin_values, dirty, status, passes, pc, hist, parser>>

NextWire == WireConnect \/ WireCreate \/ WireAddPin

SpecWire == InitWire /\ [][NextWire]_vars

\* C10: the pins tied together by a wire resolve to one node; when the wire
\* is the only one, the pins it does not tie keep nodes of their own.
C10_WirePinsShareNode ==
    /\ \A w \in DOMAIN test.tied :
          \A p \in test.tied[w], q \in test.tied[w] : pin_nodes[p] = pin_nodes[q]
    /\ Len(test.tied) = 1 =>
          \A p \in AllPins(desc), q \in AllPins(desc) :
              (pin_nodes[p] = pin_nodes[q]) =
                  (p = q \/ (p \in test.tied[1] /\ q \in test.tied[1]))

\* one wire ties three pins, which share a node the fourth pin is not on
C10_Witness ==
    /\ Len(test.tied) = 1
    /\ Cardinality(test.tied[1]) = 3
    /\ Len(desc.m_wires[1].m_pins) = 3
    /\ Cardinality({pin_nodes[p] : p \in test.tied[1]}) = 1
    /\ Cardinality({pin_nodes[p] : p \in AllPins(desc)}) = 2

-----------------------------------------------------------------------------
(* SpecEdit: the wires of a description are edited, by connect, by          *)
(* create_wire and add_pin, by remove_wire and by disconnect_pin, and the   *)
(* description is instantiated, which resolves its pins to nodes; an edit    *)
(* discards the instance, as the editor does                                *)

InitEdit ==
    /\ desc = WirePalette([id \in 0 .. 2 |-> 0])
    /\ pin_nodes = NodeMap(desc)
    /\ pin_values = fresh_pin_values(desc)
    /\ dirty = {}
    /\ status = "idle"
    /\ passes = 0
    /\ pc = "instantiated"
    /\ hist = Before0
    /\ parser = <<>>
    /\ test = [removed |-> FALSE, disconnected |-> FALSE]

\* connect(pin_a, pin_b)
EditConnect ==
    /\ Len(desc.m_wires) < MaxWires
    /\ desc.m_wire_id < MaxWireIds
    /\ PinsOnWires(desc.m_wires, 1) + 2 <= MaxWirePins
    /\ \E pin_a \in AllPins(desc), pin_b \in AllPins(desc) :
          desc' = connect(desc, pin_a, pin_b)
    /\ pin_nodes' = <<>>
    /\ pc' = "edit"
    /\ UNCHANGED <<pin_values, dirty, status, passes, hist, parser, test>>

\* create_wire()
EditCreateWire ==
    /\ Len(desc.m_wires) < MaxWires
    /\ desc.m_wire_id < MaxWireIds
    /\ desc' = create_wire(desc)
    /\ pin_nodes' = <<>>
    /\ pc' = "edit"
    /\ UNCHANGED <<pin_values, dirty, status, passes, hist, parser, test>>

\* wire->add_pin(pin) on one of the wires, with a pin that is not yet on it
EditAddPin ==
    /\ PinsOnWires(desc.m_wires, 1) < MaxWirePins
    /\ \E w \in DOMAIN desc.m_wires, pin \in AllPins(desc) :
          /\ \A i \in DOMAIN desc.m_wires[w].m_pins : desc.m_wires[w].m_pins[i] # pin
          /\ desc' = add_pin(desc, desc.m_wires[w].m_id, pin)
    /\ pin_nodes' = <<>>
    /\ pc' = "edit"
    /\ UNCHANGED <<pin_values, dirty, status, passes, hist, parser, test>>

\* remove_wire(id) of one of the wires
EditRemoveWire ==
    /\ \E w \in DOMAIN desc.m_wires : desc' = remove_wire(desc, desc.m_wires[w].m_id)
    /\ pc' = "edit"
    /\ test' = [test EXCEPT !.removed = TRUE]
    /\ pin_nodes' = <<>>
    /\ UNCHANGED <<pin_values, dirty, status, passes, hist, parser>>

\* disconnect_pin(pin) of a pin that is on a wire
EditDisconnectPin ==
    /\ \E pin \in AllPins(desc) :
          /\ disconnect_pin(desc, pin) # desc
          /\ desc' = disconnect_pin(desc, pin)
    /\ pc' = "edit"
    /\ test' = [test EXCEPT !.disconnected = TRUE]
    /\ pin_nodes' = <<>>
    /\ UNCHANGED <<pin_values, dirty, status, passes, hist, parser>>

\* instantiate(): the pins of the description are resolved to nodes
EditInstantiate ==
    /\ pc = "edit"
    /\ pin_nodes' = NodeMap(desc)
    /\ pc' = "instantiated"
    /\ UNCHANGED <<desc, pin_values, dirty, status, passes, hist, parser, test>>

NextEdit ==
    \/ EditConnect
    \/ EditCreateWire
    \/ EditAddPin
    \/ EditRemoveWire
    \/ EditDisconnectPin
    \/ EditInstantiate

SpecEdit == InitEdit /\ [][NextEdit]_vars

\* the pins of a wire, as a set
WirePinSet(w) == {w.m_pins[i] : i \in DOMAIN w.m_pins}

RECURSIVE Joined(_, _)
\* the pins a chain of wires leads to from the pins of S
Joined(d, S) ==
    LET T == S \cup UNION {WirePinSet(d.m_wires[k]) :
                  k \in {j \in DOMAIN d.m_wires : WirePinSet(d.m_wires[j]) \cap S # {}}}
    IN IF T = S THEN S ELSE Joined(d, T)

\* C11: after any sequence of connect, create_wire, add_pin, remove_wire and
\* disconnect_pin followed by instantiation, every pin has exactly one node,
\* two pins share a node exactly when a chain of wires joins them, and a
\* pin on no wire is alone in its node.
C11_NodesPartitionPins ==
    pc = "instantiated" =>
        /\ DOMAIN pin_nodes = AllPins(desc)
        /\ \A p \in AllPins(desc), q \in AllPins(desc) :
              (pin_nodes[p] = pin_nodes[q]) = (q \in Joined(desc, {p}))
        /\ \A p \in AllPins(desc) :
              (\A k \in DOMAIN desc.m_wires : p \notin WirePinSet(desc.m_wires[k]))
                  => \A q \in AllPins(desc) \ {p} : pin_nodes[q] # pin_nodes[p]

\* after a wire was removed and a pin disconnected, two wires that share a
\* pin join three pins in one node and leave the fourth alone
C11_Witness ==
    /\ pc = "instantiated"
    /\ test.removed /\ test.disconnected
    /\ Len(desc.m_wires) = 2
    /\ Cardinality(WirePinSet(desc.m_wires[1]) \cap WirePinSet(desc.m_wires[2])) = 1
    /\ Cardinality(WirePinSet(desc.m_wires[1]) \cup WirePinSet(desc.m_wires[2])) = 3
    /\ Cardinality({pin_nodes[p] : p \in AllPins(desc)}) = 2

-----------------------------------------------------------------------------
(* SpecTri: two tri-state buffers drive one node that an output connector  *)
(* reads; a caller writes their data and control connectors and steps      *)

\* connectors a, b (data) and ea, eb (control), buffers ta, tb, connector out
TriBusCircuit(priority) ==
    LET d1 == add_connector_in(CircuitDescription("tri"), "a", 1, FALSE, priority)
        d2 == add_connector_in(d1, "b", 1, FALSE, priority)
        d3 == add_connector_in(d2, "ea", 1, FALSE, priority)
        d4 == add_connector_in(d3, "eb", 1, FALSE, priority)
        d5 == add_tristate_buffer(d4, 1, priority)
        d6 == add_tristate_buffer(d5, 1, priority)
        d7 == add_connector_out(d6, "out", 1, FALSE, priority)
        c(id) == component_by_id(d7, id)
        w1 == connect(d7, output_pin_id(c(0), 0), input_pin_id(c(4), 0))
        w2 == connect(w1, output_pin_id(c(2), 0), control_pin_id(c(4), 0))
        w3 == connect(w2, output_pin_id(c(1), 0), input_pin_id(c(5), 0))
        w4 == connect(w3, output_pin_id(c(3), 0), control_pin_id(c(5), 0))
        w5 == connect(w4, output_pin_id(c(4), 0), input_pin_id(c(6), 0))
    IN  connect(w5, output_pin_id(c(5), 0), input_pin_id(c(6), 0))

\* the two tri-state buffers of the circuit
TriBuffers == {c \in Components(desc) : c.m_type = "TRISTATE_BUFFER"}

\* the pin the caller writes for the k-th connector
TriPin(k) == output_pin_id(component_by_id(desc, k), 0)

InitTri ==
    /\ \E priority \in Priorities : desc = TriBusCircuit(priority)
    /\ pin_nodes = NodeMap(desc)
    /\ pin_values = fresh_pin_values(desc)
    /\ dirty = {}
    /\ status = "idle"
    /\ passes = 0
    /\ pc = "init"
    /\ hist = Before0
    /\ parser = <<>>
    /\ test \in [v : [0 .. 3 -> Value], k : {0}]

\* sim->init()
TriInit ==
    /\ pc = "init"
    /\ pin_values' = init_pin_values(desc)
    /\ dirty' = init_dirty(desc)
    /\ status' = "idle"
    /\ passes' = 0
    /\ pc' = "write"
    /\ UNCHANGED <<desc, pin_nodes, hist, parser, test>>

\* write_pin on the next of the four connectors
TriWrite ==
    /\ pc = "write"
    /\ pin_values' = write_pin_values(pin_values, TriPin(test.k), test.v[test.k])
    /\ dirty' = write_pin_dirty(desc, pin_nodes, pin_values, dirty,
                                TriPin(test.k), test.v[test.k])
    /\ IF test.k = 3
       THEN pc' = "step" /\ test' = [test EXCEPT !.k = 0]
       ELSE pc' = pc /\ test' = [test EXCEPT !.k = @ + 1]
    /\ UNCHANGED <<desc, pin_nodes, status, passes, hist, parser>>

\* sim->step()
TriStep ==
    /\ pc = "step"
    /\ LET r == step(desc, pin_nodes, pin_values, dirty)
       IN /\ pin_values' = r.pv
          /\ dirty' = r.dirty
          /\ status' = r.status
          /\ passes' = r.passes
    /\ pc' = "done"
    /\ UNCHANGED <<desc, pin_nodes, hist, parser, test>>

\* write_pin of another value on one of the control connectors
TriChange ==
    /\ pc = "done"
    /\ \E k \in {2, 3}, v \in Value :
          /\ v # test.v[k]
          /\ pin_values' = write_pin_values(pin_values, TriPin(k), v)
          /\ dirty' = write_pin_dirty(desc, pin_nodes, pin_values, dirty, TriPin(k), v)
          /\ test' = [test EXCEPT !.v[k] = v]
    /\ pc' = "step"
    /\ UNCHANGED <<desc, pin_nodes, status, passes, hist, parser>>

NextTri == TriInit \/ TriWrite \/ TriStep \/ TriChange

SpecTri == InitTri /\ [][NextTri]_vars

\* what the buffer reads on its control pin and on its input pin
TriControl(c) == read_pin(desc, pin_nodes, pin_values, control_pin_id(c, 0))
TriInput(c) == read_pin(desc, pin_nodes, pin_values, input_pin_id(c, 0))

\* the buffers whose control pin reads TRUE
TriEnabled == {c \in TriBuffers : TriControl(c) = VALUE_TRUE}

\* the value of the node the two buffers drive
TriBusValue ==
    read_pin(desc, pin_nodes, pin_values, input_pin_id(component_by_id(desc, 6), 0))

\* C13: after a step, a tri-state buffer puts its input on its output only
\* while its control pin reads TRUE and UNDEFINED otherwise; a node with one
\* enabled driver and disabled tri-state drivers resolves to the value of the
\* enabled driver, and with none enabled to UNDEFINED: a disabled buffer
\* never makes the node ERROR.
C13_TriState ==
    pc = "done" =>
        /\ status = "stable"
        /\ \A c \in TriBuffers :
              pin_values[output_pin_id(c, 0)] =
                  IF TriControl(c) = VALUE_TRUE THEN TriInput(c) ELSE VALUE_UNDEFINED
        /\ \A c \in TriBuffers : TriEnabled = {c} => TriBusValue = TriInput(c)
        /\ TriEnabled = {} => TriBusValue = VALUE_UNDEFINED

\* one buffer is enabled and drives TRUE while the other is disabled with
\* FALSE on its input: the node reads TRUE
C13_Witness ==
    /\ pc = "done"
    /\ \E c \in TriBuffers, o \in TriBuffers :
          /\ TriEnabled = {c}
          /\ TriInput(c) = VALUE_TRUE
          /\ TriInput(o) = VALUE_FALSE
          /\ TriControl(o) = VALUE_FALSE
    /\ TriBusValue = VALUE_TRUE
    /\ passes > 0

-----------------------------------------------------------------------------
(* SpecNest: the circuits of a context embed each other as sub-circuits    *)
(* and one of them is instantiated                                         *)

\* the circuits of the context
CircuitNames == {"A", "B"}

\* the circuit a sub-circuit component refers to
nested_circuit(c) == property_value(c, "circuit", "unknown")

\* create_component(nested_circuit): a sub-circuit component that refers to
\* the circuit by name; "unknown" is the reference a component is created with
create_nested_component(d, circuit, priority) ==
    LET d1 == create_component(d, "SUB_CIRCUIT", 0, 0, 0, priority)
    IN  IF circuit = "unknown" THEN d1
        ELSE set_property(d1, d.m_component_id, "circuit", circuit)

\* the circuits the sub-circuit components of d refer to, by component id
NestedRefs(d) ==
    LET subs == SelectSeq(d.m_components, LAMBDA c : c.m_type = "SUB_CIRCUIT")
    IN  [i \in DOMAIN subs |-> nested_circuit(subs[i])]

\* the outcome of an instantiation that failed: there is no instance
Rejected == [ok |-> FALSE, circuit |-> "", nodes |-> <<>>, nested |-> <<>>]

\* an assembly that keeps the nested instances that could be built
assemble_partial(d, children) ==
    [ok |-> TRUE, circuit |-> d.m_name, nodes |-> NodeMap(d),
     nested |-> SelectSeq(children, LAMBDA i : i.ok)]

\* the instance of d from the instances of its sub-circuits, if all were built
assemble(d, children) ==
    IF \E i \in DOMAIN children : ~children[i].ok THEN Rejected
    ELSE [ok |-> TRUE, circuit |-> d.m_name, nodes |-> NodeMap(d), nested |-> children]

RECURSIVE instantiate(_, _, _)
\* instantiate the circuit `name` of the context; `path` holds the circuits
\* that are being instantiated around it
instantiate(ctx, name, path) ==
    IF name \notin DOMAIN ctx THEN Rejected
    ELSE IF name \in path THEN Rejected
    ELSE LET refs == NestedRefs(ctx[name])
         IN  assemble(ctx[name],
                      [i \in DOMAIN refs |-> instantiate(ctx, refs[i], path \cup {name})])

InitNest ==
    /\ desc = CircuitDescription("none")
    /\ pin_nodes = <<>>
    /\ pin_values = <<>>
    /\ dirty = {}
    /\ status = "idle"
    /\ passes = 0
    /\ pc = "edit"
    /\ hist = Before0
    /\ parser = <<>>
    /\ test = [ctx |-> [n \in CircuitNames |-> add_not_gate(CircuitDescription(n), 0)],
               result |-> Rejected]

\* a circuit of the context embeds a circuit; an edit discards the instance
NestEmbed ==
    /\ \E n \in CircuitNames, circuit \in CircuitNames \cup {"unknown"} :
          /\ Len(NestedRefs(test.ctx[n])) < MaxNested
          /\ test' = [ctx |-> [test.ctx EXCEPT ![n] = create_nested_component(@, circuit, 0)],
                      result |-> Rejected]
    /\ desc' = CircuitDescription("none")
    /\ pin_nodes' = <<>>
    /\ pc' = "edit"
    /\ UNCHANGED <<pin_values, dirty, status, passes, hist, parser>>

\* instantiate() of one of the circuits
NestInstantiate ==
    /\ pc = "edit"
    /\ \E n \in CircuitNames :
          /\ desc' = test.ctx[n]
          /\ test' = [test EXCEPT !.result = instantiate(test.ctx, n, {})]
    /\ pin_nodes' = test'.result.nodes
    /\ pc' = "instantiated"
    /\ UNCHANGED <<pin_values, dirty, status, passes, hist, parser>>

NextNest == NestEmbed \/ NestInstantiate

SpecNest == InitNest /\ [][NextNest]_vars

\* the names the sub-circuit components of the circuits of S refer to
RefsOf(S) ==
    UNION {{NestedRefs(test.ctx[n])[i] : i \in DOMAIN NestedRefs(test.ctx[n])} :
           n \in S \cap CircuitNames}

RECURSIVE Embedded(_)
\* the names reached from the circuits of S through one or more embeddings
Embedded(S) ==
    LET T == S \cup RefsOf(S) IN IF T = S THEN RefsOf(S) ELSE Embedded(T)

\* the circuit embeds, directly or transitively, a circuit that embeds itself
\* or a circuit the context does not know
BadNesting(n) ==
    LET reached == {n} \cup Embedded({n})
    IN  \/ \E m \in reached : m \notin CircuitNames
        \/ \E m \in reached \cap CircuitNames : m \in Embedded({m})

RECURSIVE Complete(_)
\* the instance holds an instance for every sub-circuit component, all the
\* way down
Complete(inst) ==
    /\ inst.ok
    /\ inst.circuit \in CircuitNames
    /\ Len(inst.nested) = Len(NestedRefs(test.ctx[inst.circuit]))
    /\ \A i \in DOMAIN inst.nested :
          /\ inst.nested[i].circuit = NestedRefs(test.ctx[inst.circuit])[i]
          /\ Complete(inst.nested[i])

\* C14: instantiate ends, and it fails, leaving no instance and no part of
\* one, exactly when the circuit's nesting is cyclic or refers to a circuit
\* that is not known; otherwise the instance is complete.
C14_InstantiateRejects ==
    pc = "instantiated" =>
        IF BadNesting(desc.m_name)
        THEN test.result = Rejected /\ pin_nodes = <<>>
        ELSE Complete(test.result) /\ test.result.circuit = desc.m_name

\* a circuit that embeds itself through another one was rejected
C14_Witness ==
    /\ pc = "instantiated"
    /\ desc.m_name = "A"
    /\ NestedRefs(test.ctx["A"]) = <<"B", "B">>
    /\ NestedRefs(test.ctx["B"]) = <<"A">>
    /\ ~test.result.ok

-----------------------------------------------------------------------------
(* SpecGui: the editor window. Components come from the palette, the       *)
(* property panel edits the selected component, and the radio buttons      *)
(* switch between the editor and a simulation of the description           *)

\* Component::change_input_pins on the component with the given id
change_input_pins(d, id, new_count) ==
    [d EXCEPT !.m_components[id + 1].m_inputs = new_count]

\* change_output_pins that leaves the output pins as they are
change_output_pins_kept(d, id, new_count) == d

\* Component::change_output_pins on the component with the given id
change_output_pins(d, id, new_count) ==
    [d EXCEPT !.m_components[id + 1].m_outputs = new_count]

\* change_port_pin_count: the pins of a connector, outputs for an input
\* connector and inputs for an output connector
change_port_pin_count(d, comp_id, new_count) ==
    IF d.m_components[comp_id + 1].m_type = "CONNECTOR_IN"
    THEN change_output_pins(d, comp_id, new_count)
    ELSE change_input_pins(d, comp_id, new_count)

\* the buttons of the palette
PaletteButtons == {"AND", "Buffer", "Input", "Constant"}

\* the create_func of a button of the palette
create_func(d, button) ==
    CASE button = "AND" -> add_and_gate(d, 2, 0)
      [] button = "Buffer" -> add_buffer(d, 1, 0)
      [] button = "Input" -> add_connector_in(d, "in", 1, FALSE, 0)
      [] button = "Constant" -> add_constant(d, VALUE_TRUE, 0)

\* no component is selected
NoSelection == 0 - 1

is_simulating == pc = "simulation"

\* the selected component, when one is selected
selected_component == desc.m_components[test.selected + 1]

InitGui ==
    /\ desc = CircuitDescription("main")
    /\ pin_nodes = <<>>
    /\ pin_values = <<>>
    /\ dirty = {}
    /\ status = "idle"
    /\ passes = 0
    /\ pc = "editor"
    /\ hist = Before0
    /\ parser = <<>>
    /\ test = [selected |-> NoSelection]

\* a button of the palette: the component is created and selected, unless a
\* simulation is going on
GuiPalette ==
    /\ desc.m_component_id < MaxComponents
    /\ \E button \in PaletteButtons :
          IF ~is_simulating
          THEN /\ desc' = create_func(desc, button)
               /\ test' = [test EXCEPT !.selected = desc.m_component_id]
          ELSE UNCHANGED <<desc, test>>
    /\ UNCHANGED <<pin_nodes, pin_values, dirty, status, passes, pc, hist, parser>>

\* a click on a component selects it, a click on the background clears the
\* selection
GuiSelect ==
    /\ \E id \in {NoSelection} \cup {c.m_id : c \in Components(desc)} :
          test' = [test EXCEPT !.selected = id]
    /\ UNCHANGED <<desc, pin_nodes, pin_values, dirty, status, passes, pc, hist, parser>>

\* property panel, "Data Bits" of a connector
GuiPortDataBits ==
    /\ test.selected # NoSelection
    /\ selected_component.m_type \in {"CONNECTOR_IN", "CONNECTOR_OUT"}
    /\ \E input \in 0 .. MaxInputs :
          LET data_bits == IF input <= 0 THEN 1 ELSE input
          IN  desc' = change_port_pin_count(desc, test.selected, data_bits)
    /\ UNCHANGED <<pin_nodes, pin_values, dirty, status, passes, pc, hist, parser, test>>

\* property panel, "Value" of a constant
GuiConstantValue ==
    /\ test.selected # NoSelection
    /\ selected_component.m_type = "CONSTANT"
    /\ \E cur_value \in Value : desc' = set_property(desc, test.selected, "value", cur_value)
    /\ UNCHANGED <<pin_nodes, pin_values, dirty, status, passes, pc, hist, parser, test>>

\* property panel, "Data Bits" of a buffer
GuiBufferDataBits ==
    /\ test.selected # NoSelection
    /\ selected_component.m_type \in {"BUFFER", "TRISTATE_BUFFER"}
    /\ \E input \in 0 .. MaxInputs :
          LET data_bits == IF input <= 0 THEN 1 ELSE input
          IN  desc' = change_output_pins(
                          change_input_pins(desc, test.selected, data_bits),
                          test.selected, data_bits)
    /\ UNCHANGED <<pin_nodes, pin_values, dirty, status, passes, pc, hist, parser, test>>

\* property panel, "Inputs" of a gate
GuiGateInputs ==
    /\ test.selected # NoSelection
    /\ selected_component.m_type \in {"AND_GATE", "OR_GATE", "NAND_GATE", "NOR_GATE"}
    /\ \E num_inputs \in 2 .. MaxInputs :
          desc' = change_input_pins(desc, test.selected, num_inputs)
    /\ UNCHANGED <<pin_nodes, pin_values, dirty, status, passes, pc, hist, parser, test>>

\* radio button "Simulation": the description is instantiated and the
\* simulator is initialised, which resets the FALSE that
\* init_input_connectors wrote to the input connectors just before
GuiSimulation ==
    /\ pin_nodes' = NodeMap(desc)
    /\ pin_values' = init_pin_values(desc)
    /\ dirty' = init_dirty(desc)
    /\ status' = "idle"
    /\ passes' = 0
    /\ pc' = "simulation"
    /\ UNCHANGED <<desc, hist, parser, test>>

\* radio button "Editor": the instance is discarded
GuiEditor ==
    /\ pin_nodes' = <<>>
    /\ pin_values' = <<>>
    /\ dirty' = {}
    /\ status' = "idle"
    /\ passes' = 0
    /\ pc' = "editor"
    /\ UNCHANGED <<desc, hist, parser, test>>

\* sim->step(), by the button or because the simulation runs, of an instance
\* that still has the pins of its description
GuiStep ==
    /\ is_simulating
    /\ DOMAIN pin_values = AllPins(desc)
    /\ LET r == step(desc, pin_nodes, pin_values, dirty)
       IN /\ pin_values' = r.pv
          /\ dirty' = r.dirty
          /\ status' = r.status
          /\ passes' = r.passes
    /\ UNCHANGED <<desc, pin_nodes, pc, hist, parser, test>>

NextGui ==
    \/ GuiPalette
    \/ GuiSelect
    \/ GuiPortDataBits
    \/ GuiConstantValue
    \/ GuiBufferDataBits
    \/ GuiGateInputs
    \/ GuiSimulation
    \/ GuiEditor
    \/ GuiStep

SpecGui == InitGui /\ [][NextGui]_vars

\* the pin counts of the components, by id
PinCounts(d) ==
    [i \in DOMAIN d.m_components |->
        <<d.m_components[i].m_inputs, d.m_components[i].m_outputs,
          d.m_components[i].m_controls>>]

\* C15: while an instance of the description exists, no step changes the
\* components, the pin counts or the wires of the description.
C15_NoEditWhileSimulating ==
    [][is_simulating =>
          /\ Len(desc'.m_components) = Len(desc.m_components)
          /\ PinCounts(desc') = PinCounts(desc)
          /\ desc'.m_wires = desc.m_wires]_vars

\* C16: no step changes the pin counts of a component that exists.
C16_PinCountsFixed ==
    [][\A i \in DOMAIN desc.m_components :
          /\ i \in DOMAIN desc'.m_components
          /\ PinCounts(desc')[i] = PinCounts(desc)[i]]_vars

-----------------------------------------------------------------------------
(* Properties of the wires of a description, checked under SpecWire        *)

\* C17: after any sequence of create_wire, connect and add_pin every wire
\* of the description ties two or more pins.
C17_WiresTieTwoPins ==
    \A k \in DOMAIN desc.m_wires : Cardinality(WirePinSet(desc.m_wires[k])) >= 2

-----------------------------------------------------------------------------
(* SpecPinId: the pin ids of the components of a description are computed  *)
(* by input_pin_id, output_pin_id and control_pin_id                       *)

\* the three kinds of pins and the function that computes the id of each
PinKinds == {"input", "output", "control"}

PinCount(c, kind) ==
    CASE kind = "input" -> c.m_inputs
      [] kind = "output" -> c.m_outputs
      [] kind = "control" -> c.m_controls

PinIdOf(c, kind, index) ==
    CASE kind = "input" -> input_pin_id(c, index)
      [] kind = "output" -> output_pin_id(c, index)
      [] kind = "control" -> control_pin_id(c, index)

\* two components, of (inputs, outputs, controls) pins and of (outputs,
\* controls, inputs) pins
InitPinId ==
    /\ \E inputs \in 0 .. MaxInputs, outputs \in 0 .. MaxInputs, controls \in 0 .. MaxInputs :
          desc = create_component(
                     create_component(CircuitDescription("pins"), "SUB_CIRCUIT",
                                      inputs, outputs, controls, 0),
                     "SUB_CIRCUIT", outputs, controls, inputs, 0)
    /\ pin_nodes = <<>>
    /\ pin_values = <<>>
    /\ dirty = {}
    /\ status = "idle"
    /\ passes = 0
    /\ pc = "pins"
    /\ hist = Before0
    /\ parser = <<>>
    /\ test = [ids |-> <<>>]

\* the ids of the pins of one kind of a component, index by index
ComputePinIds(kind) ==
    \E c \in Components(desc) :
        /\ PinCount(c, kind) > 0
        /\ <<c.m_id, kind, 0>> \notin DOMAIN test.ids
        /\ LET new == {<<c.m_id, kind, i>> : i \in 0 .. (PinCount(c, kind) - 1)}
           IN  test' = [ids |-> [k \in DOMAIN test.ids \cup new |->
                                    IF k \in new THEN PinIdOf(c, kind, k[3])
                                    ELSE test.ids[k]]]
        /\ UNCHANGED <<desc, pin_nodes, pin_values, dirty, status, passes, pc, hist, parser>>

PinIdInputs == ComputePinIds("input")

PinIdOutputs == ComputePinIds("output")

PinIdControls == ComputePinIds("control")

NextPinId == PinIdInputs \/ PinIdOutputs \/ PinIdControls

SpecPinId == InitPinId /\ [][NextPinId]_vars

\* the local index of the pin of a kind: inputs first, then outputs, then
\* controls
LocalIndex(c, kind, index) ==
    CASE kind = "input" -> index
      [] kind = "output" -> c.m_inputs + index
      [] kind = "control" -> c.m_inputs + c.m_outputs + index

\* C18: a pin id decodes to the id of its component and to its local index,
\* the input, output and control pins take the index ranges [0, in),
\* [in, in + out) and [in + out, in + out + ctl), and two different pins
\* never have the same id.
C18_PinIdRoundTrip ==
    /\ \A k \in DOMAIN test.ids :
          LET c == component_by_id(desc, k[1])
          IN  /\ component_id_from_pin_id(test.ids[k]) = k[1]
              /\ pin_index_from_pin_id(test.ids[k]) = LocalIndex(c, k[2], k[3])
              /\ k[2] = "input" =>
                    pin_index_from_pin_id(test.ids[k]) \in 0 .. (c.m_inputs - 1)
              /\ k[2] = "output" =>
                    pin_index_from_pin_id(test.ids[k])
                        \in c.m_inputs .. (c.m_inputs + c.m_outputs - 1)
              /\ k[2] = "control" =>
                    pin_index_from_pin_id(test.ids[k])
                        \in (c.m_inputs + c.m_outputs) .. (NumPins(c) - 1)
    /\ \A k \in DOMAIN test.ids, l \in DOMAIN test.ids :
          k # l => test.ids[k] # test.ids[l]

\* the ids of all pins of two components that have pins of every kind
C18_Witness ==
    /\ \A c \in Components(desc) : \A kind \in PinKinds : PinCount(c, kind) > 0
    /\ \E c \in Components(desc) : c.m_inputs > 1 /\ c.m_outputs > 1
    /\ Cardinality(DOMAIN test.ids) = PinsBefore(desc, 2)

-----------------------------------------------------------------------------
(* SpecLookup: a caller looks up components, properties and pin ids of a   *)
(* description, present ones and absent ones                               *)

\* a constant, a pull resistor and an AND gate
LookupCircuit(value, num_inputs) ==
    add_and_gate(
        add_pull_resistor(
            add_constant(CircuitDescription("lookup"), value, 0),
            VALUE_TRUE, 0),
        num_inputs, 0)

\* the keys a caller asks for; no component has the last one
LookupKeys == {"value", "pull_to", "missing"}

\* the lookup returned the null pointer (or, for a pin id, never returned)
is_null(result) == ToString(result) = ToString(NULL)

NoLookup == [op |-> "none", arg |-> 0, absent |-> FALSE, null |-> FALSE, value |-> 0,
             def_value |-> 0, before |-> CircuitDescription("lookup")]

InitLookup ==
    /\ \E value \in Value, num_inputs \in 2 .. MaxInputs :
          desc = LookupCircuit(value, num_inputs)
    /\ pin_nodes = <<>>
    /\ pin_values = <<>>
    /\ dirty = {}
    /\ status = "idle"
    /\ passes = 0
    /\ pc = "lookup"
    /\ hist = Before0
    /\ parser = <<>>
    /\ test = NoLookup

\* component_by_id(id), with ids the description has and ids it has not
LookupComponent ==
    /\ pc = "lookup"
    /\ \E id \in 0 .. (desc.m_component_id + 1) :
          test' = [NoLookup EXCEPT
                      !.op = "component_by_id",
                      !.arg = id,
                      !.absent = (\A c \in Components(desc) : c.m_id # id),
                      !.null = is_null(component_by_id(desc, id)),
                      !.before = desc]
    /\ UNCHANGED <<desc, pin_nodes, pin_values, dirty, status, passes, pc, hist, parser>>

\* property_value(key, def_value) on a component
LookupProperty ==
    /\ pc = "lookup"
    /\ \E c \in Components(desc), key \in LookupKeys, def_value \in Value :
          test' = [NoLookup EXCEPT
                      !.op = "property_value",
                      !.absent = (key \notin DOMAIN c.m_properties),
                      !.value = property_value(c, key, def_value),
                      !.def_value = def_value,
                      !.before = desc]
    /\ UNCHANGED <<desc, pin_nodes, pin_values, dirty, status, passes, pc, hist, parser>>

\* pin_id, input_pin_id, output_pin_id or control_pin_id with an index in or
\* out of the range of the component: out of range the assertion fails
LookupPin ==
    /\ pc = "lookup"
    /\ \E c \in Components(desc), kind \in PinKinds \cup {"pin"}, index \in 0 .. (MaxInputs + 1) :
          LET count == IF kind = "pin" THEN NumPins(c) ELSE PinCount(c, kind)
              pin == IF kind = "pin" THEN pin_id(c, index) ELSE PinIdOf(c, kind, index)
          IN  /\ test' = [NoLookup EXCEPT !.op = "pin_id",
                                           !.arg = index,
                                           !.absent = (index >= count),
                                           !.null = is_null(pin),
                                           !.before = desc]
              /\ pc' = IF is_null(pin) THEN "aborted" ELSE pc
    /\ UNCHANGED <<desc, pin_nodes, pin_values, dirty, status, passes, hist, parser>>

NextLookup == LookupComponent \/ LookupProperty \/ LookupPin

SpecLookup == InitLookup /\ [][NextLookup]_vars

\* C19: component_by_id of an unknown id returns null and property_value of
\* an unknown key returns the default, the description is as it was before
\* the lookup, and the program is aborted exactly by a pin index out of the
\* range of the component.
C19_AbsentIsNotAnError ==
    /\ test.op = "component_by_id" => test.null = test.absent
    /\ (test.op = "property_value" /\ test.absent) => test.value = test.def_value
    /\ test.op # "none" => desc = test.before
    /\ (pc = "aborted") = (test.op = "pin_id" /\ test.absent)

\* an unknown key was looked up with a default that no property holds
C19_Witness ==
    /\ test.op = "property_value"
    /\ test.absent
    /\ test.value = VALUE_ERROR
    /\ pc = "lookup"

-----------------------------------------------------------------------------
(* SpecImport: load_logisim on documents that are well formed or not, with *)
(* elements the importer accepts and elements it does not                  *)

\* comp elements: a labelled pin, a NOT gate, a component the importer has
\* no type for, a location without brackets, an element without loc
ImportComps == {
    [lib |-> 0, loc |-> Loc(190, 170), name |-> "Pin",
     a |-> <<[name |-> "label", val |-> "In"]>>],
    [lib |-> 1, loc |-> Loc(300, 170), name |-> "NOT Gate", a |-> <<>>],
    [lib |-> 4, loc |-> Loc(100, 100), name |-> "Clock", a |-> <<>>],
    [lib |-> 1, loc |-> [Loc(240, 170) EXCEPT !.front = "2", !.back = "0"],
     name |-> "Buffer", a |-> <<>>],
    [lib |-> 1, name |-> "Buffer", a |-> <<>>] }

\* wire elements: a wire, a wire without its to attribute, a wire whose
\* from attribute has no comma
ImportWires == {
    [from |-> Loc(190, 170), to |-> Loc(270, 170)],
    [from |-> Loc(190, 170)],
    [from |-> [Loc(190, 170) EXCEPT !.sep = ""], to |-> Loc(270, 170)] }

\* the sequences of 1 .. MaxElements elements of a set
ElementSeqs(S) == UNION {[1 .. n -> S] : n \in 1 .. MaxElements}

\* documents: text that is XML or not, with or without a project element and
\* a circuit element in it
ImportDocuments ==
    {[xml |-> TRUE, project |-> TRUE, circuit |-> TRUE, comps |-> cs, wires |-> <<w>>] :
        cs \in ElementSeqs(ImportComps), w \in ImportWires}
    \cup {[xml |-> x, project |-> p, circuit |-> c,
           comps |-> <<CHOOSE e \in ImportComps : e.name = "Pin">>,
           wires |-> <<CHOOSE w \in ImportWires : "to" \in DOMAIN w
                                                  /\ w.from.sep = ",">>] :
            x \in BOOLEAN, p \in BOOLEAN, c \in BOOLEAN}

InitImport ==
    /\ desc = CircuitDescription("import")
    /\ pin_nodes = <<>>
    /\ pin_values = <<>>
    /\ dirty = {}
    /\ status = "idle"
    /\ passes = 0
    /\ pc = "load_buffer"
    /\ hist = Before0
    /\ parser = NewParser
    /\ \E doc \in ImportDocuments :
          test = [doc |-> doc, k |-> 1, pr |-> [id \in 0 .. MaxElements |-> 0],
                  result |-> "none"]

\* load_logisim: the text is loaded; parse_xml looks for the project and the
\* circuit element
ImportLoad ==
    /\ pc = "load_buffer"
    /\ IF ~test.doc.xml \/ ~test.doc.project \/ ~test.doc.circuit
       THEN pc' = "returned" /\ test' = [test EXCEPT !.result = "false"]
       ELSE pc' = "parse_component" /\ UNCHANGED test
    /\ UNCHANGED <<desc, pin_nodes, pin_values, dirty, status, passes, hist, parser>>

\* parse_xml: connect_components, return true
ImportConnect ==
    /\ pc = "connect_components"
    /\ desc' = connect_components(desc, parser.m_pin_locs, parser.m_wires, 1)
    /\ pc' = "returned"
    /\ test' = [test EXCEPT !.result = "true"]
    /\ UNCHANGED <<pin_nodes, pin_values, dirty, status, passes, hist, parser>>

NextImport == ImportLoad \/ LoadComponent \/ LoadWire \/ ImportConnect

SpecImport == InitImport /\ [][NextImport]_vars

\* the importer accepts the comp element, the wire element
CompParses(comp_node) ==
    parse_component(CircuitDescription("import"), <<>>, <<>>, comp_node, 0).ok

WireParses(wire_node) == parse_wire(<<>>, wire_node).ok

\* the document is XML with a project and a circuit whose elements all parse
DocumentParses(doc) ==
    /\ doc.xml /\ doc.project /\ doc.circuit
    /\ \A k \in DOMAIN doc.comps : CompParses(doc.comps[k])
    /\ \A k \in DOMAIN doc.wires : WireParses(doc.wires[k])

\* C20: load_logisim returns true exactly when the document is XML with a
\* project and a circuit element and every comp and wire element of the
\* circuit was parsed, every comp being added to the circuit.
C20_LoadRelaysErrors ==
    pc = "returned" =>
        /\ (test.result = "true") = DocumentParses(test.doc)
        /\ test.result = "true" => desc.m_component_id = Len(test.doc.comps)

-----------------------------------------------------------------------------
(* SpecPass: the step of the simulator taken apart into its passes and its *)
(* evaluations, on an instance a caller initialises, writes and steps      *)

\* two buffers driving one node that a NOT gate reads
GlitchCircuit(pr) ==
    LET d1 == add_connector_in(CircuitDescription("glitch"), "a", 1, FALSE, pr[0])
        d2 == add_connector_in(d1, "b", 1, FALSE, pr[1])
        d3 == add_buffer(d2, 1, pr[2])
        d4 == add_buffer(d3, 1, pr[3])
        d5 == add_not_gate(d4, pr[4])
        c(id) == component_by_id(d5, id)
        d6 == connect(d5, output_pin_id(c(0), 0), input_pin_id(c(2), 0))
        d7 == connect(d6, output_pin_id(c(1), 0), input_pin_id(c(3), 0))
        d8 == connect(d7, output_pin_id(c(2), 0), input_pin_id(c(4), 0))
    IN  connect(d8, output_pin_id(c(3), 0), input_pin_id(c(4), 0))

\* the connectors are given the priority 0: evaluating a connector reads and
\* writes nothing, so its place in a pass changes no value
PassPriorities(n) == {pr \in PriorityChoices(n) : pr[0] = 0}

PassCircuits ==
    {GlitchCircuit(pr) : pr \in {x \in PassPriorities(5) : x[1] = 0}}
    \cup {FeedbackCircuit(pr) : pr \in PassPriorities(3)}

\* the locals of a step: the components left in the running pass and the
\* nodes that resolved to ERROR since the step began
NoPass == [todo |-> {}, sticky |-> {}]

\* what the caller and the step did last: the instance the running step
\* began with, the ids evaluated so far in the running pass, the instance
\* before the last evaluation, and the components whose last evaluation read
\* ERROR on a node that no longer resolved to ERROR
NoEvaluation == [op |-> "instantiate", pv0 |-> <<>>, dirty0 |-> {}, order |-> <<>>,
                 evaluated |-> 0 - 1, pv |-> <<>>, pending |-> {}, glitched |-> {}]

InitPass ==
    /\ desc \in PassCircuits
    /\ pin_nodes = NodeMap(desc)
    /\ pin_values = fresh_pin_values(desc)
    /\ dirty = {}
    /\ status = "idle"
    /\ passes = 0
    /\ pc = "instantiated"
    /\ hist = NoEvaluation
    /\ parser = <<>>
    /\ test = NoPass

\* sim->init(): the callers initialise an instance before they step it
PassInit ==
    /\ pc \in {"instantiated", "idle"}
    /\ pin_values' = init_pin_values(desc)
    /\ dirty' = init_dirty(desc)
    /\ status' = "idle"
    /\ passes' = 0
    /\ pc' = "idle"
    /\ hist' = [NoEvaluation EXCEPT !.op = "init"]
    /\ UNCHANGED <<desc, pin_nodes, parser, test>>

\* write_pin between two steps
PassWrite ==
    /\ pc = "idle"
    /\ \E pin \in ExternalPins(desc), v \in Value :
        /\ pin_values' = write_pin_values(pin_values, pin, v)
        /\ dirty' = write_pin_dirty(desc, pin_nodes, pin_values, dirty, pin, v)
    /\ hist' = [NoEvaluation EXCEPT !.op = "write", !.glitched = hist.glitched]
    /\ UNCHANGED <<desc, pin_nodes, status, passes, pc, parser, test>>

\* step() is entered: no pass made yet, no node sticky
PassBegin ==
    /\ pc = "idle"
    /\ pc' = "stepping"
    /\ passes' = 0
    /\ test' = NoPass
    /\ hist' = [hist EXCEPT !.op = "begin", !.pv0 = pin_values, !.dirty0 = dirty,
                            !.order = <<>>, !.evaluated = 0 - 1]
    /\ UNCHANGED <<desc, pin_nodes, pin_values, dirty, status, parser>>

\* (1) pop the dirty set: it becomes the pass, the next dirty set starts empty
PassPop ==
    /\ pc = "stepping"
    /\ test.todo = {}
    /\ dirty # {}
    /\ passes <= MaxPasses
    /\ test' = [test EXCEPT !.todo = dirty]
    /\ dirty' = {}
    /\ passes' = passes + 1
    /\ hist' = [hist EXCEPT !.op = "pop", !.order = <<>>, !.evaluated = 0 - 1]
    /\ UNCHANGED <<desc, pin_nodes, pin_values, status, pc, parser>>

\* the component of the running pass that is evaluated next
NextInOrder(d, todo) ==
    CHOOSE x \in {c \in Components(d) : c.m_id \in todo} :
        \A y \in {c \in Components(d) : c.m_id \in todo} : Before(x, y)

\* the read pins of c on which the step makes it read ERROR although the
\* node resolves to another value now
Overridden(d, nm, s, c) ==
    {q \in ReadPinsOf(c) : nm[q] \in s.sticky
                            /\ Resolve(d, nm, s.pv, nm[q]) # VALUE_ERROR}

\* (2) and (3) for one component of the pass
PassEvaluate ==
    /\ pc = "stepping"
    /\ test.todo # {}
    /\ LET c == NextInOrder(desc, test.todo)
           s == [pv |-> pin_values, next |-> dirty, sticky |-> test.sticky]
           r == EvalComponent(desc, pin_nodes, s, c)
       IN /\ pin_values' = r.pv
          /\ dirty' = r.next
          /\ test' = [todo |-> test.todo \ {c.m_id}, sticky |-> r.sticky]
          /\ hist' = [hist EXCEPT
                 !.op = "evaluate",
                 !.order = Append(@, c.m_id),
                 !.evaluated = c.m_id,
                 !.pv = pin_values,
                 !.pending = dirty,
                 !.glitched = IF Overridden(desc, pin_nodes, s, c) # {}
                              THEN @ \cup {c.m_id} ELSE @ \ {c.m_id}]
    /\ UNCHANGED <<desc, pin_nodes, status, passes, pc, parser>>

\* the step returns: stable, or non-converging at the bound on the passes
PassEnd ==
    /\ pc = "stepping"
    /\ test.todo = {}
    /\ dirty = {} \/ passes > MaxPasses
    /\ status' = IF dirty = {} THEN "stable" ELSE "nonconverging"
    /\ pc' = "idle"
    /\ test' = NoPass
    /\ hist' = [hist EXCEPT !.op = "step"]
    /\ UNCHANGED <<desc, pin_nodes, pin_values, dirty, passes, parser>>

NextPass ==
    \/ PassInit
    \/ PassWrite
    \/ PassBegin
    \/ PassPop
    \/ PassEvaluate
    \/ PassEnd

SpecPass == InitPass /\ [][NextPass]_vars

\* the passes and evaluations of SpecPass make the step that step computes
PassesMakeStep ==
    (pc = "idle" /\ hist.op = "step") =>
        LET r == step(desc, pin_nodes, hist.pv0, hist.dirty0)
        IN  /\ pin_values = r.pv
            /\ dirty = r.dirty
            /\ status = r.status
            /\ passes = r.passes

\* the values on the output pins of c, and the values its behaviour function
\* gives for the resolved values of the nodes of its input and control pins
OutputsOf(c) == [i \in 1 .. c.m_outputs |-> pin_values[<<c.m_id, c.m_inputs + i - 1>>]]

BehaviorOnNodes(c) ==
    Behavior(c,
             [i \in 1 .. c.m_inputs |->
                 NodeValue(pin_values, pin_nodes[<<c.m_id, i - 1>>])],
             [i \in 1 .. c.m_controls |->
                 NodeValue(pin_values,
                           pin_nodes[<<c.m_id, c.m_inputs + c.m_outputs + i - 1>>])],
             OutputsOf(c))

\* the output pins the last evaluation changed
ChangedPins ==
    IF hist.op = "evaluate"
    THEN {p \in OutputPinsOf(component_by_id(desc, hist.evaluated)) :
              pin_values[p] # hist.pv[p]}
    ELSE {}

\* the components that read the node of pin p on an input or control pin
ReadersOfPin(p) ==
    {c \in Components(desc) : \E q \in ReadPinsOf(c) : pin_nodes[q] = pin_nodes[p]}

PropagationMarked ==
    \A p \in ChangedPins : \A c \in ReadersOfPin(p) : c.m_id \in dirty

ReportedStable == pc = "idle" /\ hist.op = "step" /\ status = "stable"

OtherRun(d, pr) ==
    [d EXCEPT !.m_components =
        [i \in DOMAIN @ |-> [@[i] EXCEPT !.m_priority = pr[i - 1]]]]

\* the order in which a pass evaluates the components with the ids in todo
RECURSIVE PassOrder(_, _)
PassOrder(d, todo) ==
    IF todo = {} THEN <<>>
    ELSE LET c == NextInOrder(d, todo)
         IN <<c.m_id>> \o PassOrder(d, todo \ {c.m_id})

PassDone == pc = "stepping" /\ test.todo = {} /\ hist.op = "evaluate"

\* C22: within a pass the dirty components are evaluated in ascending
\* priority order and, at equal priority, in creation order; and the order
\* is the same in every run of the same description, also for components
\* whose priority was never set explicitly.
C22_PassOrderIsFixed ==
    /\ \A i, j \in DOMAIN hist.order :
          i < j => LET x == component_by_id(desc, hist.order[i])
                       y == component_by_id(desc, hist.order[j])
                   IN \/ x.m_priority < y.m_priority
                      \/ x.m_priority = y.m_priority /\ x.m_id < y.m_id
    /\ PassDone =>
          \A pr \in PriorityChoices(desc.m_component_id) :
              PassOrder(OtherRun(desc, pr),
                        {hist.order[i] : i \in DOMAIN hist.order}) = hist.order

\* what a read of node n returns in the running step
ReadValue(n) ==
    ReadNode(desc, pin_nodes, [pv |-> pin_values, sticky |-> test.sticky], n)

\* the nodes that were not at ERROR when the running step began
CleanAtBegin == {n \in Nodes : NodeValue(hist.pv0, n) # VALUE_ERROR}

-----------------------------------------------------------------------------
(* SpecIncr: the wires of a description are edited under a live pin -> node *)
(* map, which every edit updates in place instead of rebuilding it         *)

\* the pins on the node of pin p
NodePins(nm, p) == {q \in DOMAIN nm : nm[q] = nm[p]}

\* local re-union: a wire from pin a to pin b joins their two nodes
reunion(nm, a, b) == merge_nodes(nm, a, b)

\* index removal: the pin leaves its node, the other pins stay together
resplit_pin_only(d, nm, former) ==
    [p \in DOMAIN nm |->
        IF p \in former /\ (\A k \in DOMAIN d.m_wires : p \notin {d.m_wires[k].m_pins[i] :
                                                          i \in DOMAIN d.m_wires[k].m_pins})
        THEN OwnNode(d, p) ELSE nm[p]]

\* local re-split: the pins of a former node go back to nodes of their own
\* and are joined again along the wires that are left on them; the other
\* nodes are not touched
resplit(d, nm, former) ==
    LET alone == [p \in DOMAIN nm |-> IF p \in former THEN OwnNode(d, p) ELSE nm[p]]
        left == SelectSeq(d.m_wires,
                          LAMBDA w : \E i \in DOMAIN w.m_pins : w.m_pins[i] \in former)
    IN  MergeWires(alone, left, 1)

\* the last edit, the pins of the node it took apart, the pin it disconnected
NoEdit == [op |-> "none", former |-> {}, pin |-> <<>>]

InitIncr ==
    /\ desc = WirePalette([id \in 0 .. 2 |-> 0])
    /\ pin_nodes = NodeMap(desc)
    /\ pin_values = fresh_pin_values(desc)
    /\ dirty = {}
    /\ status = "idle"
    /\ passes = 0
    /\ pc = "instantiated"
    /\ hist = NoEdit
    /\ parser = <<>>
    /\ test = <<>>

\* connect(pin_a, pin_b)
IncrConnect ==
    /\ Len(desc.m_wires) < MaxWires
    /\ desc.m_wire_id < MaxWireIds
    /\ PinsOnWires(desc.m_wires, 1) + 2 <= MaxWirePins
    /\ \E pin_a \in AllPins(desc), pin_b \in AllPins(desc) :
          /\ desc' = connect(desc, pin_a, pin_b)
          /\ pin_nodes' = reunion(pin_nodes, pin_a, pin_b)
    /\ hist' = [NoEdit EXCEPT !.op = "connect"]
    /\ UNCHANGED <<pin_values, dirty, status, passes, pc, parser, test>>

\* wire->add_pin(pin) on a wire that holds pins, with a pin not yet on it
IncrAddPin ==
    /\ PinsOnWires(desc.m_wires, 1) < MaxWirePins
    /\ \E w \in DOMAIN desc.m_wires, pin \in AllPins(desc) :
          /\ desc.m_wires[w].m_pins # <<>>
          /\ \A i \in DOMAIN desc.m_wires[w].m_pins : desc.m_wires[w].m_pins[i] # pin
          /\ desc' = add_pin(desc, desc.m_wires[w].m_id, pin)
          /\ pin_nodes' = reunion(pin_nodes, desc.m_wires[w].m_pins[1], pin)
    /\ hist' = [NoEdit EXCEPT !.op = "add_pin"]
    /\ UNCHANGED <<pin_values, dirty, status, passes, pc, parser, test>>

\* remove_wire(id) of one of the wires
IncrRemoveWire ==
    /\ \E w \in DOMAIN desc.m_wires :
          LET former == UNION {NodePins(pin_nodes, desc.m_wires[w].m_pins[i]) :
                                   i \in DOMAIN desc.m_wires[w].m_pins}
          IN /\ desc' = remove_wire(desc, desc.m_wires[w].m_id)
             /\ pin_nodes' = resplit(desc', pin_nodes, former)
             /\ hist' = [op |-> "remove_wire", former |-> former, pin |-> <<>>]
    /\ UNCHANGED <<pin_values, dirty, status, passes, pc, parser, test>>

\* disconnect_pin(pin) of a pin that is on a wire
IncrDisconnectPin ==
    /\ \E pin \in AllPins(desc) :
          /\ disconnect_pin(desc, pin) # desc
          /\ desc' = disconnect_pin(desc, pin)
          /\ pin_nodes' = resplit(desc', pin_nodes, NodePins(pin_nodes, pin))
          /\ hist' = [op |-> "disconnect_pin", former |-> NodePins(pin_nodes, pin),
                      pin |-> pin]
    /\ UNCHANGED <<pin_values, dirty, status, passes, pc, parser, test>>

NextIncr == IncrConnect \/ IncrAddPin \/ IncrRemoveWire \/ IncrDisconnectPin

SpecIncr == InitIncr /\ [][NextIncr]_vars

\* two pin -> node maps that make the same partition of the pins
SamePartition(nm1, nm2) ==
    /\ DOMAIN nm1 = DOMAIN nm2
    /\ \A p \in DOMAIN nm1, q \in DOMAIN nm1 : (nm1[p] = nm1[q]) = (nm2[p] = nm2[q])

\* the pieces the wires of the description leave of a set of pins
Pieces(S) == {Joined(desc, {p}) : p \in S}

\* C24: after disconnect_pin or remove_wire (and after connect and add_pin)
\* the pin -> node map updated in place makes the partition a full rebuild
\* from the remaining wires makes; the former node falls into as many nodes
\* as the remaining wires leave connected pieces of it, and its other pins
\* stay one node if the remaining wires still connect them all.
C24_IncrementalEqualsRebuild ==
    /\ SamePartition(pin_nodes, NodeMap(desc))
    /\ hist.op \in {"remove_wire", "disconnect_pin"} =>
          /\ Cardinality({pin_nodes[p] : p \in hist.former}) =
                 Cardinality(Pieces(hist.former))
          /\ LET others == hist.former \ {hist.pin}
             IN (\A p \in others, q \in others : q \in Joined(desc, {p}))
                   => Cardinality({pin_nodes[p] : p \in others}) <= 1

\* disconnecting the pin two wires shared split a node of three pins in three
C24_Witness ==
    /\ hist.op = "disconnect_pin"
    /\ Cardinality(hist.former) = 3
    /\ Cardinality({pin_nodes[p] : p \in hist.former}) = 3
    /\ Len(desc.m_wires) = 2

\* disconnecting a pin from a wire of three left the other two in one node
C24_WitnessOnePiece ==
    /\ hist.op = "disconnect_pin"
    /\ Cardinality(hist.former) = 3
    /\ Cardinality({pin_nodes[p] : p \in hist.former \ {hist.pin}}) = 1

-----------------------------------------------------------------------------
(* SpecSib: a parent circuit with two sub-circuit components side by side, *)
(* each owning the instance of its nested circuit                          *)

\* the ports of a circuit: the pins of its input and of its output
\* connectors, in creation order
InputPorts(d) ==
    LET cs == SelectSeq(d.m_components, LAMBDA c : c.m_type = "CONNECTOR_IN")
    IN  [k \in DOMAIN cs |-> output_pin_id(cs[k], 0)]

OutputPorts(d) ==
    LET cs == SelectSeq(d.m_components, LAMBDA c : c.m_type = "CONNECTOR_OUT")
    IN  [k \in DOMAIN cs |-> input_pin_id(cs[k], 0)]

\* create_component(nested_circuit): a sub-circuit component with a pin for
\* every port of the nested circuit, which it refers to by name
create_component_nested(d, nested, priority) ==
    LET d1 == create_component(d, "SUB_CIRCUIT", Len(InputPorts(nested)),
                               Len(OutputPorts(nested)), 0, priority)
    IN  set_property(d1, d.m_component_id, "circuit", nested.m_name)

\* connector, NOT gate, connector
InverterCircuit ==
    LET d1 == add_connector_in(CircuitDescription("inverter"), "in", 1, FALSE, 0)
        d2 == add_not_gate(d1, 0)
        d3 == add_connector_out(d2, "out", 1, FALSE, 0)
        c(id) == component_by_id(d3, id)
        d4 == connect(d3, output_pin_id(c(0), 0), input_pin_id(c(1), 0))
    IN  connect(d4, output_pin_id(c(1), 0), input_pin_id(c(2), 0))

\* connector, buffer, connector
FollowerCircuit ==
    LET d1 == add_connector_in(CircuitDescription("follower"), "in", 1, FALSE, 0)
        d2 == add_buffer(d1, 1, 0)
        d3 == add_connector_out(d2, "out", 1, FALSE, 0)
        c(id) == component_by_id(d3, id)
        d4 == connect(d3, output_pin_id(c(0), 0), input_pin_id(c(1), 0))
    IN  connect(d4, output_pin_id(c(1), 0), input_pin_id(c(2), 0))

\* the circuits of the library, by name
SibLibrary ==
    [n \in {"inverter", "follower"} |->
        IF n = "inverter" THEN InverterCircuit ELSE FollowerCircuit]

\* connectors a and b, each wired to the input of a sub-circuit component
SibCircuit(first, second) ==
    LET d1 == add_connector_in(CircuitDescription("parent"), "a", 1, FALSE, 0)
        d2 == add_connector_in(d1, "b", 1, FALSE, 0)
        d3 == create_component_nested(d2, SibLibrary[first], 0)
        d4 == create_component_nested(d3, SibLibrary[second], 0)
        c(id) == component_by_id(d4, id)
        d5 == connect(d4, output_pin_id(c(0), 0), input_pin_id(c(2), 0))
    IN  connect(d5, output_pin_id(c(1), 0), input_pin_id(c(3), 0))

SubIds(d) == {c.m_id : c \in {x \in Components(d) : x.m_type = "SUB_CIRCUIT"}}

\* one nested instance for all the components that embed the same circuit
nested_slot_by_circuit(d, id) ==
    LET same == {k \in SubIds(d) : nested_circuit(component_by_id(d, k)) =
                                    nested_circuit(component_by_id(d, id))}
    IN  CHOOSE k \in same : \A other \in same : k <= other

\* component_by_id(comp->id())->nested_instance(): the nested instance is
\* held by the component it was instantiated for
nested_slot(d, id) == id

nested_instance(d, insts, id) == insts[nested_slot(d, id)]

\* a nested instance after instantiation and init
new_instance(nested) ==
    [pv |-> init_pin_values(nested), dirty |-> init_dirty(nested)]

\* the pin -> node maps of the circuits of the library, as instantiation
\* builds them
SibNodes == [n \in DOMAIN SibLibrary |-> NodeMap(SibLibrary[n])]

RECURSIVE ForwardInputs(_, _, _, _)
\* the values on the input pins of the component are written to the input
\* connectors of the nested instance, port by port
ForwardInputs(nested, inst, values, k) ==
    IF k > Len(values) THEN inst
    ELSE LET pin == InputPorts(nested)[k]
             nm == SibNodes[nested.m_name]
         IN  ForwardInputs(nested,
                 [pv |-> write_pin_values(inst.pv, pin, values[k]),
                  dirty |-> write_pin_dirty(nested, nm, inst.pv, inst.dirty,
                                            pin, values[k])],
                 values, k + 1)

\* evaluation of a sub-circuit component: forward the inputs, let the nested
\* instance resolve, read its output ports back (each stage is computed once
\* and bound to a name)
evaluate_sub_circuit(nested, inst, values) ==
    LET nm == SibNodes[nested.m_name]
        read_back(r) ==
            [inst |-> [pv |-> r.pv, dirty |-> r.dirty],
             out |-> [k \in DOMAIN OutputPorts(nested) |->
                         read_pin(nested, nm, r.pv, OutputPorts(nested)[k])]]
    IN  CHOOSE x \in {read_back(r) :
                r \in {step(nested, nm, written.pv, written.dirty) :
                    written \in {ForwardInputs(nested, inst, values, 1)}}} : TRUE

InitSib ==
    /\ \E first \in DOMAIN SibLibrary, second \in DOMAIN SibLibrary :
          desc = SibCircuit(first, second)
    /\ pin_nodes = NodeMap(desc)
    /\ pin_values = fresh_pin_values(desc)
    /\ dirty = {}
    /\ status = "idle"
    /\ passes = 0
    /\ pc = "instantiated"
    /\ hist = [op |-> "instantiate", evaluated |-> 0 - 1]
    /\ parser = <<>>
    /\ test = [nested |-> [id \in SubIds(desc) |->
                   new_instance(SibLibrary[nested_circuit(component_by_id(desc, id))])]]

\* sim->init() on the parent and on the instances nested in it
SibInit ==
    /\ pin_values' = init_pin_values(desc)
    /\ dirty' = init_dirty(desc)
    /\ test' = [nested |-> [id \in SubIds(desc) |->
                   new_instance(SibLibrary[nested_circuit(component_by_id(desc, id))])]]
    /\ pc' = "idle"
    /\ hist' = [op |-> "init", evaluated |-> 0 - 1]
    /\ UNCHANGED <<desc, pin_nodes, status, passes, parser>>

\* write_pin on a connector of the parent, between two steps
SibWrite ==
    /\ pc = "idle"
    /\ \E pin \in ExternalPins(desc), v \in Value :
        /\ pin_values' = write_pin_values(pin_values, pin, v)
        /\ dirty' = write_pin_dirty(desc, pin_nodes, pin_values, dirty, pin, v)
    /\ hist' = [op |-> "write", evaluated |-> 0 - 1]
    /\ UNCHANGED <<desc, pin_nodes, status, passes, pc, parser, test>>

\* the parent's step evaluates its dirty components one after the other,
\* in the order of the pass
SibEvaluate ==
    /\ pc \in {"idle", "stepping"}
    /\ dirty # {}
    /\ LET c == NextInOrder(desc, dirty)
           id == c.m_id
           values == [i \in 1 .. c.m_inputs |->
                         read_pin(desc, pin_nodes, pin_values, input_pin_id(c, i - 1))]
           changed(out) == {i \in 1 .. c.m_outputs :
                               out[i] # pin_values[output_pin_id(c, i - 1)]}
       IN  /\ IF c.m_type = "SUB_CIRCUIT"
              THEN \E r \in {evaluate_sub_circuit(SibLibrary[nested_circuit(c)],
                                  nested_instance(desc, test.nested, id), values)} :
                   /\ test' = [nested |-> [test.nested EXCEPT
                                              ![nested_slot(desc, id)] = r.inst]]
                   /\ pin_values' = [p \in DOMAIN pin_values |->
                          IF p \in OutputPinsOf(c)
                          THEN r.out[p[2] - c.m_inputs + 1] ELSE pin_values[p]]
                   /\ dirty' = (dirty \ {id}) \cup
                          Readers(desc, pin_nodes,
                                  {pin_nodes[output_pin_id(c, i - 1)] : i \in changed(r.out)})
              ELSE /\ dirty' = dirty \ {id}
                   /\ UNCHANGED <<pin_values, test>>
           /\ hist' = [op |-> "evaluate", evaluated |-> id]
           /\ pc' = IF dirty' = {} THEN "idle" ELSE "stepping"
    /\ UNCHANGED <<desc, pin_nodes, status, passes, parser>>

NextSib == SibInit \/ SibWrite \/ SibEvaluate

SpecSib == InitSib /\ [][NextSib]_vars

\* the nested instance of a sub-circuit component, with the values of its nodes
NestedOf(id) ==
    LET inst == nested_instance(desc, test.nested, id)
        nested == SibLibrary[nested_circuit(component_by_id(desc, id))]
        nm == SibNodes[nested.m_name]
    IN  [pv |-> inst.pv, dirty |-> inst.dirty,
         nodes |-> [p \in DOMAIN nm |-> Resolve(nested, nm, inst.pv, nm[p])]]

\* C25: nested instances are isolated: the evaluation of a sub-circuit
\* component changes no pin or node value of a sibling's nested instance,
\* also when both embed the same circuit; a nested instance changes only
\* when its own component is evaluated (or on init), and what reaches it is
\* the value on its own component's input pin.
C25_SiblingsIsolated ==
    [][\A s \in SubIds(desc) :
          /\ NestedOf(s)' # NestedOf(s) =>
                \/ hist'.op = "init"
                \/ hist'.op = "evaluate" /\ hist'.evaluated = s
          /\ (hist'.op = "evaluate" /\ hist'.evaluated = s) =>
                LET c == component_by_id(desc, s)
                    nested == SibLibrary[nested_circuit(c)]
                IN  NestedOf(s)'.pv[InputPorts(nested)[1]] =
                        read_pin(desc, pin_nodes, pin_values, input_pin_id(c, 0))]_vars

\* two components embed the same circuit and their nested instances differ:
\* one was evaluated on TRUE, the other on FALSE
C25_Witness ==
    /\ \A s \in SubIds(desc) : nested_circuit(component_by_id(desc, s)) = "inverter"
    /\ hist.op = "evaluate"
    /\ NestedOf(2).pv[InputPorts(InverterCircuit)[1]] = VALUE_TRUE
    /\ NestedOf(3).pv[InputPorts(InverterCircuit)[1]] = VALUE_FALSE
    /\ pin_values[<<2, 1>>] = VALUE_FALSE
    /\ pin_values[<<3, 1>>] = VALUE_TRUE

-----------------------------------------------------------------------------
(* SpecGate: one gate evaluated on every value of its inputs, and negation *)
(* applied to every value                                                  *)

GateTypes == {"AND_GATE", "OR_GATE", "NAND_GATE", "NOR_GATE"}

\* the description that holds one gate of the type, with n inputs
GateCircuit(type, n) ==
    LET d == CircuitDescription("gate")
    IN  CASE type = "AND_GATE" -> add_and_gate(d, n, 0)
          [] type = "OR_GATE" -> add_or_gate(d, n, 0)
          [] type = "NAND_GATE" -> add_nand_gate(d, n, 0)
          [] type = "NOR_GATE" -> add_nor_gate(d, n, 0)

NoGateCall == [op |-> "none", in |-> <<>>, out |-> <<>>, twice |-> <<>>]

InitGate ==
    /\ \E type \in GateTypes, n \in 2 .. MaxInputs : desc = GateCircuit(type, n)
    /\ pin_nodes = NodeMap(desc)
    /\ pin_values = fresh_pin_values(desc)
    /\ dirty = {}
    /\ status = "idle"
    /\ passes = 0
    /\ pc = "idle"
    /\ hist = NoGateCall
    /\ parser = <<>>
    /\ test = <<>>

\* the gate is evaluated on the values read on its input pins
GateEvaluate ==
    /\ \E in \in [1 .. component_by_id(desc, 0).m_inputs -> Value] :
          hist' = [op |-> "evaluate", in |-> in,
                   out |-> Behavior(component_by_id(desc, 0), in, <<>>,
                                    <<VALUE_UNDEFINED>>),
                   twice |-> <<>>]
    /\ UNCHANGED <<desc, pin_nodes, pin_values, dirty, status, passes, pc,
                   parser, test>>

\* negate_value on a value, and on its result
GateNegate ==
    /\ \E v \in Value :
          hist' = [op |-> "negate", in |-> <<v>>,
                   out |-> <<negate_value(v)>>,
                   twice |-> <<negate_value(negate_value(v))>>]
    /\ UNCHANGED <<desc, pin_nodes, pin_values, dirty, status, passes, pc,
                   parser, test>>

NextGate == GateEvaluate \/ GateNegate

SpecGate == InitGate /\ [][NextGate]_vars

\* what the same inputs give on a gate of another type
OnGate(type, in) ==
    Behavior([component_by_id(desc, 0) EXCEPT !.m_type = type], in, <<>>,
             <<VALUE_UNDEFINED>>)[1]

Has(in, v) == \E i \in DOMAIN in : in[i] = v

\* C26: OR, NAND and NOR gates of two or more inputs: a dominant input
\* decides the output (a TRUE input: OR is TRUE, NOR is FALSE; a FALSE
\* input: NAND is TRUE); without a dominant input the output is ERROR if an
\* input is ERROR, otherwise UNDEFINED if an input is UNDEFINED; and NAND is
\* the negation of AND, NOR the negation of OR, on all inputs.
C26_GateRules ==
    hist.op = "evaluate" =>
        LET type == component_by_id(desc, 0).m_type
            in == hist.in
            out == hist.out[1]
            dominant == IF type = "NAND_GATE" THEN VALUE_FALSE ELSE VALUE_TRUE
        IN  /\ (type = "OR_GATE" /\ Has(in, VALUE_TRUE)) => out = VALUE_TRUE
            /\ (type = "NOR_GATE" /\ Has(in, VALUE_TRUE)) => out = VALUE_FALSE
            /\ (type = "NAND_GATE" /\ Has(in, VALUE_FALSE)) => out = VALUE_TRUE
            /\ (type # "AND_GATE" /\ ~Has(in, dominant)) =>
                  /\ Has(in, VALUE_ERROR) => out = VALUE_ERROR
                  /\ (~Has(in, VALUE_ERROR) /\ Has(in, VALUE_UNDEFINED)) =>
                        out = VALUE_UNDEFINED
            /\ type = "NAND_GATE" => out = negate_value(OnGate("AND_GATE", in))
            /\ type = "NOR_GATE" => out = negate_value(OnGate("OR_GATE", in))

\* C27: negation maps TRUE to FALSE, FALSE to TRUE, UNDEFINED to UNDEFINED
\* and ERROR to ERROR, and applied twice it returns the original value.
C27_NegationKeepsError ==
    hist.op = "negate" =>
        /\ hist.out[1] = CASE hist.in[1] = VALUE_TRUE -> VALUE_FALSE
                           [] hist.in[1] = VALUE_FALSE -> VALUE_TRUE
                           [] hist.in[1] = VALUE_UNDEFINED -> VALUE_UNDEFINED
                           [] hist.in[1] = VALUE_ERROR -> VALUE_ERROR
        /\ hist.twice[1] = hist.in[1]

-----------------------------------------------------------------------------
(* SpecGroup: the importer's wire groups, for the wire elements of a       *)
(* document in every order                                                 *)

\* the circuit of the test with a second path from the buffer to the NOT
\* gate, drawn below the first: the four segments close a rectangle
RectangleWires == <<
    [from |-> Loc(240, 170), to |-> Loc(270, 170)],
    [from |-> Loc(240, 170), to |-> Loc(240, 180)],
    [from |-> Loc(240, 180), to |-> Loc(270, 180)],
    [from |-> Loc(270, 180), to |-> Loc(270, 170)] >>

GroupDocuments ==
    {[comps |-> LogisimComps, wires |-> ws] :
        ws \in Orders(RectangleWires) \cup Orders(SegmentedWires)}

InitGroup ==
    /\ desc = CircuitDescription("logisim")
    /\ pin_nodes = <<>>
    /\ pin_values = <<>>
    /\ dirty = {}
    /\ status = "idle"
    /\ passes = 0
    /\ pc = "parse_component"
    /\ hist = Before0
    /\ parser = NewParser
    /\ \E doc \in GroupDocuments :
          test = [doc |-> doc, k |-> 1, pr |-> [i \in 0 .. 3 |-> 0],
                  v |-> VALUE_FALSE, start |-> VALUE_UNDEFINED]

NextGroup == LoadComponent \/ LoadWire \/ LoadConnect

SpecGroup == InitGroup /\ [][NextGroup]_vars

\* the end points of a wire element
EndPoints(wire_node) ==
    {parse_location(wire_node.from), parse_location(wire_node.to)}

RECURSIVE Chained(_, _)
\* the locations a chain of wire segments with shared end points leads to
\* from the locations of S
Chained(wires, S) ==
    LET T == S \cup UNION {EndPoints(wires[k]) :
                  k \in {j \in DOMAIN wires : EndPoints(wires[j]) \cap S # {}}}
    IN IF T = S THEN S ELSE Chained(wires, T)

\* C28: for every order of the wire elements the import goes through, and
\* two pins are connected exactly when their locations are end points of
\* wire segments joined by a chain of shared end points; a wire whose ends
\* lie on one or on two groups parsed before loses no point of a group.
C28_WiresGrouped ==
    /\ pc # "crashed"
    /\ hist.op = "connect_components" =>
          \A l1 \in DOMAIN parser.m_pin_locs, l2 \in DOMAIN parser.m_pin_locs :
              l1 # l2 =>
                  (pin_nodes[parser.m_pin_locs[l1]] = pin_nodes[parser.m_pin_locs[l2]]
                     <=> l2 \in Chained(test.doc.wires, {l1}) \ {l1})

-----------------------------------------------------------------------------
(* SpecMode: the frames of main_gui: a click on one widget at most, then   *)
(* the step of a running simulation                                        *)

\* the ids of the components of a type, in creation order
component_ids_of_type(d, type) ==
    LET cs == SelectSeq(d.m_components, LAMBDA c : c.m_type = type)
    IN  [k \in DOMAIN cs |-> cs[k].m_id]

RECURSIVE WriteConnector(_, _, _, _, _, _)
\* the inner loop of init_input_connectors: write_pin(pin++, VALUE_FALSE)
\* for every output of the connector
WriteConnector(d, nm, inst, c, pin, idx) ==
    IF idx >= c.m_outputs THEN inst
    ELSE WriteConnector(d, nm,
             [pv |-> write_pin_values(inst.pv, pin, VALUE_FALSE),
              dirty |-> write_pin_dirty(d, nm, inst.pv, inst.dirty, pin, VALUE_FALSE),
              written |-> inst.written \cup {pin}],
             c, <<pin[1], pin[2] + 1>>, idx + 1)

RECURSIVE InitConnectors(_, _, _, _, _)
\* the outer loop of init_input_connectors, over the input connectors
InitConnectors(d, nm, inst, ids, k) ==
    IF k > Len(ids) THEN inst
    ELSE LET connector == component_by_id(d, ids[k])
             pin == output_pin_id(connector, 0)
         IN  InitConnectors(d, nm,
                 IF ~property_value(connector, "tri_state", FALSE)
                 THEN WriteConnector(d, nm, inst, connector, pin, 0)
                 ELSE inst,
                 ids, k + 1)

init_input_connectors(d, nm, pv, ds) ==
    InitConnectors(d, nm, [pv |-> pv, dirty |-> ds, written |-> {}],
                   component_ids_of_type(d, "CONNECTOR_IN"), 1)

\* connector a of one bit and connector b of two, either of them tri-state
\* or not; a feeds a buffer that feeds the output connector
ModeCircuit(tri_a, tri_b) ==
    LET d1 == add_connector_in(CircuitDescription("main"), "a", 1, tri_a, 0)
        d2 == add_connector_in(d1, "b", 2, tri_b, 0)
        d3 == add_buffer(d2, 1, 0)
        d4 == add_connector_out(d3, "out", 1, FALSE, 0)
        c(id) == component_by_id(d4, id)
        d5 == connect(d4, output_pin_id(c(0), 0), input_pin_id(c(2), 0))
    IN  connect(d5, output_pin_id(c(2), 0), input_pin_id(c(3), 0))

ModeCircuits == {ModeCircuit(tri_a, tri_b) : tri_a \in BOOLEAN, tri_b \in BOOLEAN}

NoClick == [op |-> "none", instance |-> FALSE, written |-> {}]

\* the library was loaded: ui_circuit shows its main circuit, in the editor
InitMode ==
    /\ desc \in ModeCircuits
    /\ pin_nodes = <<>>
    /\ pin_values = <<>>
    /\ dirty = {}
    /\ status = "idle"
    /\ passes = 0
    /\ pc = "widgets"
    /\ hist = NoClick
    /\ parser = <<>>
    /\ test = [circuit_instance |-> FALSE, sim_running |-> FALSE]

\* close_circuit_library: the instance and the ui circuit are discarded
close_circuit_library ==
    /\ pin_nodes' = <<>>
    /\ pin_values' = <<>>
    /\ dirty' = {}
    /\ status' = "idle"
    /\ passes' = 0
    /\ test' = [test EXCEPT !.circuit_instance = FALSE]

\* button "New": load_circuit_library(""), which closes the library and
\* creates the circuit main
ModeNew ==
    /\ pc = "widgets"
    /\ close_circuit_library
    /\ desc' = CircuitDescription("main")
    /\ hist' = [NoClick EXCEPT !.op = "new"]
    /\ pc' = "run"
    /\ UNCHANGED parser

\* a file chosen after "Load": load_circuit_library(selection)
ModeLoad ==
    /\ pc = "widgets"
    /\ close_circuit_library
    /\ desc' \in ModeCircuits
    /\ hist' = [NoClick EXCEPT !.op = "load"]
    /\ pc' = "run"
    /\ UNCHANGED parser

\* radio button "Editor"
ModeEditor ==
    /\ pc = "widgets"
    /\ pin_nodes' = <<>>
    /\ pin_values' = <<>>
    /\ dirty' = {}
    /\ status' = "idle"
    /\ passes' = 0
    /\ test' = [test EXCEPT !.circuit_instance = FALSE]
    /\ hist' = [NoClick EXCEPT !.op = "editor"]
    /\ pc' = "run"
    /\ UNCHANGED <<desc, parser>>

\* radio button "Simulation": instantiate, init_input_connectors,
\* sim_running = true, sim->init()
ModeSimulation ==
    /\ pc = "widgets"
    /\ LET nm == NodeMap(desc)
           written == init_input_connectors(desc, nm, fresh_pin_values(desc), {})
       IN  /\ pin_nodes' = nm
           /\ pin_values' = init_pin_values(desc)
           /\ dirty' = init_dirty(desc)
           /\ hist' = [op |-> "simulation", instance |-> TRUE,
                       written |-> written.written]
    /\ status' = "idle"
    /\ passes' = 0
    /\ test' = [circuit_instance |-> TRUE, sim_running |-> TRUE]
    /\ pc' = "run"
    /\ UNCHANGED <<desc, parser>>

\* checkbox "Run simulation", shown while simulating
ModeRunCheckbox ==
    /\ pc = "widgets"
    /\ test.circuit_instance
    /\ test' = [test EXCEPT !.sim_running = ~@]
    /\ hist' = [NoClick EXCEPT !.op = "run_simulation"]
    /\ pc' = "run"
    /\ UNCHANGED <<desc, pin_nodes, pin_values, dirty, status, passes, parser>>

\* button "Reset simulation", shown while simulating: sim->init()
ModeReset ==
    /\ pc = "widgets"
    /\ test.circuit_instance
    /\ pin_values' = init_pin_values(desc)
    /\ dirty' = init_dirty(desc)
    /\ status' = "idle"
    /\ passes' = 0
    /\ hist' = [NoClick EXCEPT !.op = "reset"]
    /\ pc' = "run"
    /\ UNCHANGED <<desc, pin_nodes, parser, test>>

\* sim->step(): the instance, when there is one, is stepped
sim_step(op) ==
    /\ IF test.circuit_instance
       THEN LET r == step(desc, pin_nodes, pin_values, dirty)
            IN  /\ pin_values' = r.pv
                /\ dirty' = r.dirty
                /\ status' = r.status
                /\ passes' = r.passes
       ELSE UNCHANGED <<pin_values, dirty, status, passes>>
    /\ hist' = [op |-> op, instance |-> test.circuit_instance, written |-> {}]

\* button "Step", shown while simulating
ModeStepButton ==
    /\ pc = "widgets"
    /\ test.circuit_instance
    /\ sim_step("step_button")
    /\ pc' = "run"
    /\ UNCHANGED <<desc, pin_nodes, parser, test>>

\* a frame in which nothing is clicked
ModeNoClick ==
    /\ pc = "widgets"
    /\ pc' = "run"
    /\ hist' = NoClick
    /\ UNCHANGED <<desc, pin_nodes, pin_values, dirty, status, passes, parser, test>>

\* the end of the frame: if (sim_running) sim->step()
ModeRun ==
    /\ pc = "run"
    /\ IF test.sim_running
       THEN sim_step("step")
       ELSE UNCHANGED <<pin_values, dirty, status, passes, hist>>
    /\ pc' = "widgets"
    /\ UNCHANGED <<desc, pin_nodes, parser, test>>

NextMode ==
    \/ ModeNew
    \/ ModeLoad
    \/ ModeEditor
    \/ ModeSimulation
    \/ ModeRunCheckbox
    \/ ModeReset
    \/ ModeStepButton
    \/ ModeNoClick
    \/ ModeRun

SpecMode == InitMode /\ [][NextMode]_vars

\* the input connectors of the description that are not tri-state
DrivenConnectors ==
    {c \in Components(desc) : c.m_type = "CONNECTOR_IN"
                              /\ ~property_value(c, "tri_state", FALSE)}

\* C29: when simulation mode has been entered (instantiate,
\* init_input_connectors, sim->init()) and before the first step, every
\* output pin of every input connector that is not tri-state reads FALSE,
\* and the pins of the tri-state input connectors were not written.
C29_InputsStartFalse ==
    hist.op = "simulation" =>
        /\ \A c \in DrivenConnectors : \A p \in OutputPinsOf(c) :
              read_pin(desc, pin_nodes, pin_values, p) = VALUE_FALSE
        /\ hist.written = UNION {OutputPinsOf(c) : c \in DrivenConnectors}

\* C30: sim->step() is called only while a circuit instance exists: once
\* the instance is discarded (Editor, closing or reloading the library) no
\* step is executed until simulation mode is entered again.
C30_StepsNeedInstance ==
    hist.op \in {"step", "step_button"} => hist.instance

-----------------------------------------------------------------------------
(* SpecLib: the user library, the circuit shown by ui_circuit and the      *)
(* circuit-management panel. A circuit is known by its address (a number, *)
(* 0 for nullptr); the library is the sequence of its circuits.            *)

\* the library holds no more circuits than this (the Add button is not
\* pressed beyond it)
MaxCircuits == 3

nullptr == 0

CircuitPtrs == 1 .. (MaxCircuits + 1)

\* the circuits of a library, as a set
LibCircuits(lib) == {lib.m_circuits[k] : k \in DOMAIN lib.m_circuits}

\* the address a new circuit gets: one that is not in use
NewCircuit(lib, shown) ==
    CHOOSE p \in CircuitPtrs :
        /\ p \notin LibCircuits(lib) \cup {shown}
        /\ \A q \in CircuitPtrs : q \notin LibCircuits(lib) \cup {shown} => p <= q

EmptyLibrary == [m_circuits |-> <<>>, m_main |-> nullptr]

num_circuits(lib) == Len(lib.m_circuits)

\* circuit_by_idx: nullptr when the index is out of range
circuit_by_idx(lib, idx) ==
    IF idx >= 0 /\ idx < num_circuits(lib) THEN lib.m_circuits[idx + 1] ELSE nullptr

\* circuit_idx: the position of the circuit, -1 when it is not in the library
circuit_idx(lib, circuit) ==
    IF circuit \in LibCircuits(lib)
    THEN (CHOOSE k \in DOMAIN lib.m_circuits : lib.m_circuits[k] = circuit) - 1
    ELSE 0 - 1

main_circuit(lib) ==
    IF lib.m_main \in LibCircuits(lib) THEN lib.m_main ELSE nullptr

\* create_circuit followed by nothing else: the circuit is appended
create_circuit(lib, circuit) ==
    [lib EXCEPT !.m_circuits = Append(@, circuit)]

change_main_circuit(lib, circuit) == [lib EXCEPT !.m_main = circuit]

swap_circuits(lib, a, b) ==
    [lib EXCEPT !.m_circuits = [@ EXCEPT ![a + 1] = lib.m_circuits[b + 1],
                                          ![b + 1] = lib.m_circuits[a + 1]]]

delete_circuit(lib, circuit) ==
    [lib EXCEPT !.m_circuits = SelectSeq(@, LAMBDA c : c # circuit)]

\* change_active_circuit: the ui circuit and the selected index after the call
change_active_circuit(gui, active_circuit) ==
    IF gui.ui_circuit # nullptr /\ gui.ui_circuit = active_circuit THEN gui
    ELSE IF active_circuit # nullptr
         THEN [gui EXCEPT !.ui_circuit = active_circuit,
                          !.selected_circuit_idx = circuit_idx(gui.lib, active_circuit)]
         ELSE gui

\* close_circuit_library, as far as the library and the ui circuit go
close_library(gui) ==
    [gui EXCEPT !.ui_circuit = nullptr, !.lib = EmptyLibrary]

\* what a file holds: a library of 1 .. MaxCircuits - 1 circuits among which
\* its main circuit, nothing that can be read (also the name "" of New), or
\* a Logisim circuit (extension circ)
LibraryFiles ==
    {f \in {[ext |-> "lsim", circuits |-> n, main |-> m] :
                n \in 1 .. (MaxCircuits - 1), m \in 1 .. (MaxCircuits - 1)} :
        f.main <= f.circuits}
    \cup {[ext |-> "lsim", circuits |-> 0, main |-> 0],
          [ext |-> "circ", circuits |-> 1, main |-> 1]}

\* deserialize_library: the circuits of the file, in the order of the file
deserialize_library(lib, file) ==
    [m_circuits |-> [k \in 1 .. file.circuits |-> k],
     m_main |-> IF file.circuits > 0 THEN file.main ELSE nullptr]

load_circuit_library(gui, file) ==
    LET closed == IF gui.ui_circuit # nullptr THEN close_library(gui) ELSE gui
        read == deserialize_library(closed.lib, file)
        loaded == IF file.ext = "circ" THEN closed.lib
                  ELSE IF num_circuits(read) <= 0
                  THEN change_main_circuit(create_circuit(read, 1), 1)
                  ELSE read
        main == main_circuit(loaded)
    IN  change_active_circuit(
            [closed EXCEPT !.lib = loaded,
                           !.selected_circuit_idx = circuit_idx(loaded, main)],
            main)

NoGui == [lib |-> EmptyLibrary, ui_circuit |-> nullptr, selected_circuit_idx |-> 0]

\* the program starts: the statics have their initial values
InitLib ==
    /\ desc = <<>>
    /\ pin_nodes = <<>>
    /\ pin_values = <<>>
    /\ dirty = {}
    /\ status = "idle"
    /\ passes = 0
    /\ pc = "main_gui_setup"
    /\ hist = [op |-> "start"]
    /\ parser = <<>>
    /\ test = NoGui

\* main_gui_setup, with a circuit file or without one
LibSetup ==
    /\ pc = "main_gui_setup"
    /\ \/ test' = test
       \/ \E file \in LibraryFiles : test' = load_circuit_library(test, file)
    /\ hist' = [op |-> "setup"]
    /\ pc' = "control"
    /\ UNCHANGED <<desc, pin_nodes, pin_values, dirty, status, passes, parser>>

\* button "New"
LibNew ==
    /\ pc = "control"
    /\ test' = load_circuit_library(test, [ext |-> "lsim", circuits |-> 0, main |-> 0])
    /\ hist' = [op |-> "new"]
    /\ pc' = "circuit_window"
    /\ UNCHANGED <<desc, pin_nodes, pin_values, dirty, status, passes, parser>>

\* a file chosen in the file selector after "Load"
LibLoad ==
    /\ pc = "control"
    /\ \E file \in LibraryFiles : test' = load_circuit_library(test, file)
    /\ hist' = [op |-> "load"]
    /\ pc' = "circuit_window"
    /\ UNCHANGED <<desc, pin_nodes, pin_values, dirty, status, passes, parser>>

\* button "Up"
LibUp ==
    /\ pc = "control"
    /\ test' = IF test.selected_circuit_idx < num_circuits(test.lib)
                  /\ test.selected_circuit_idx > 0
               THEN [test EXCEPT
                       !.lib = swap_circuits(@, test.selected_circuit_idx,
                                             test.selected_circuit_idx - 1),
                       !.selected_circuit_idx = @ - 1]
               ELSE test
    /\ hist' = [op |-> "up"]
    /\ pc' = "circuit_window"
    /\ UNCHANGED <<desc, pin_nodes, pin_values, dirty, status, passes, parser>>

\* button "Down", in a library that holds a circuit
LibDown ==
    /\ pc = "control"
    /\ num_circuits(test.lib) > 0
    /\ test' = IF test.selected_circuit_idx < num_circuits(test.lib) - 1
               THEN [test EXCEPT
                       !.lib = swap_circuits(@, test.selected_circuit_idx,
                                             test.selected_circuit_idx + 1),
                       !.selected_circuit_idx = @ + 1]
               ELSE test
    /\ hist' = [op |-> "down"]
    /\ pc' = "circuit_window"
    /\ UNCHANGED <<desc, pin_nodes, pin_values, dirty, status, passes, parser>>

\* button "Add"
LibAdd ==
    /\ pc = "control"
    /\ num_circuits(test.lib) < MaxCircuits
    /\ LET circuit == NewCircuit(test.lib, test.ui_circuit)
           added == create_circuit(test.lib, circuit)
           lib == IF main_circuit(added) = nullptr
                  THEN change_main_circuit(added, circuit) ELSE added
       IN  test' = change_active_circuit([test EXCEPT !.lib = lib], circuit)
    /\ hist' = [op |-> "add"]
    /\ pc' = "circuit_window"
    /\ UNCHANGED <<desc, pin_nodes, pin_values, dirty, status, passes, parser>>

\* the Delete button is shown
delete_allowed(gui) ==
    /\ num_circuits(gui.lib) > 1
    /\ main_circuit(gui.lib) # circuit_by_idx(gui.lib, gui.selected_circuit_idx)

\* button "Delete"
LibDelete ==
    /\ pc = "control"
    /\ delete_allowed(test)
    /\ LET lib == delete_circuit(test.lib,
                      circuit_by_idx(test.lib, test.selected_circuit_idx))
       IN  test' = change_active_circuit([test EXCEPT !.lib = lib], main_circuit(lib))
    /\ hist' = [op |-> "delete"]
    /\ pc' = "circuit_window"
    /\ UNCHANGED <<desc, pin_nodes, pin_values, dirty, status, passes, parser>>

\* a click on a circuit of the list
LibSelect ==
    /\ pc = "control"
    /\ \E i \in 0 .. (num_circuits(test.lib) - 1) :
          test' = change_active_circuit(test, circuit_by_idx(test.lib, i))
    /\ hist' = [op |-> "select"]
    /\ pc' = "circuit_window"
    /\ UNCHANGED <<desc, pin_nodes, pin_values, dirty, status, passes, parser>>

\* a frame in which nothing of the control window is clicked
LibNoClick ==
    /\ pc = "control"
    /\ pc' = "circuit_window"
    /\ UNCHANGED <<desc, pin_nodes, pin_values, dirty, status, passes, hist,
                   parser, test>>

\* the circuit window: ui_circuit->is_simulating() is evaluated whether or
\* not ui_circuit is null; on a null pointer the frame goes on or the
\* process ends
LibCircuitWindow ==
    /\ pc = "circuit_window"
    /\ pc' \in (IF test.ui_circuit = nullptr THEN {"control", "crashed"}
                ELSE {"control"})
    /\ UNCHANGED <<desc, pin_nodes, pin_values, dirty, status, passes, hist,
                   parser, test>>

NextLib ==
    \/ LibSetup
    \/ LibNew
    \/ LibLoad
    \/ LibUp
    \/ LibDown
    \/ LibAdd
    \/ LibDelete
    \/ LibSelect
    \/ LibNoClick
    \/ LibCircuitWindow

SpecLib == InitLib /\ [][NextLib]_vars

\* C31: whenever main_gui draws the circuit window, ui_circuit is not null
\* and shows a circuit of the user library, after main_gui_setup with or
\* without a circuit file and after any sequence of New and Load, loads of
\* a file with the extension circ included.
C31_CircuitShown ==
    pc = "circuit_window" =>
        /\ test.ui_circuit # nullptr
        /\ test.ui_circuit \in LibCircuits(test.lib)

\* C33: after any sequence of Up, Down, Add, Delete and circuit-selection
\* actions in the circuit-management panel (the empty one included),
\* selected_circuit_idx is a valid index of the user library and is the
\* index of the circuit that ui_circuit displays.
C33_SelectionShown ==
    pc \in {"control", "circuit_window"} =>
        /\ test.selected_circuit_idx \in 0 .. (num_circuits(test.lib) - 1)
        /\ test.ui_circuit # nullptr
        /\ circuit_by_idx(test.lib, test.selected_circuit_idx) = test.ui_circuit

\* C34: Delete never removes the main circuit and never empties the
\* library: after any sequence of panel actions the library holds at least
\* one circuit and its main circuit is one of them.
C34_MainCircuitKept ==
    pc \in {"control", "circuit_window"} =>
        /\ num_circuits(test.lib) >= 1
        /\ main_circuit(test.lib) # nullptr

-----------------------------------------------------------------------------
(* SpecDrill: the drill-down windows of main_gui. A drill-down holds the   *)
(* address of a nested instance; `live` tells whether the instance it      *)
(* points to still exists.                                                 *)

\* no more drill-down windows than this are open at a time
MaxDrillDowns == 3

\* the sub-circuit components of the circuit shown
MaxSubComponents == 2

SubComponents == 1 .. MaxSubComponents

NoDrillDowns == [circuit_instance |-> FALSE, sub_circuit_drill_downs |-> <<>>]

\* the circuit instance is destroyed, and its nested instances with it
Discarded(drill_downs) ==
    [k \in DOMAIN drill_downs |-> [drill_downs[k] EXCEPT !.live = FALSE]]

InitDrill ==
    /\ desc = <<>>
    /\ pin_nodes = <<>>
    /\ pin_values = <<>>
    /\ dirty = {}
    /\ status = "idle"
    /\ passes = 0
    /\ pc = "widgets"
    /\ hist = [op |-> "start", drawn |-> <<>>]
    /\ parser = <<>>
    /\ test = NoDrillDowns

\* close_circuit_library: sub_circuit_drill_downs.clear()
close_drill_downs(drill_downs) == <<>>

\* New, or a file chosen after Load: close_circuit_library
DrillCloseLibrary ==
    /\ pc = "widgets"
    /\ test' = [circuit_instance |-> FALSE,
                sub_circuit_drill_downs |-> close_drill_downs(test.sub_circuit_drill_downs)]
    /\ hist' = [op |-> "close", drawn |-> <<>>]
    /\ pc' = "drill_downs"
    /\ UNCHANGED <<desc, pin_nodes, pin_values, dirty, status, passes, parser>>

\* radio button "Editor": circuit_instance = nullptr
DrillEditor ==
    /\ pc = "widgets"
    /\ test' = [circuit_instance |-> FALSE,
                sub_circuit_drill_downs |-> Discarded(test.sub_circuit_drill_downs)]
    /\ hist' = [op |-> "editor", drawn |-> <<>>]
    /\ pc' = "drill_downs"
    /\ UNCHANGED <<desc, pin_nodes, pin_values, dirty, status, passes, parser>>

\* radio button "Simulation": circuit_instance = instantiate(...), which
\* destroys the instance held before
DrillSimulation ==
    /\ pc = "widgets"
    /\ test' = [circuit_instance |-> TRUE,
                sub_circuit_drill_downs |-> Discarded(test.sub_circuit_drill_downs)]
    /\ hist' = [op |-> "simulation", drawn |-> <<>>]
    /\ pc' = "drill_downs"
    /\ UNCHANGED <<desc, pin_nodes, pin_values, dirty, status, passes, parser>>

\* main_gui_drill_down_sub_circuit, called for a sub-circuit component of
\* the current instance or of a nested instance that exists
DrillOpen ==
    /\ pc = "widgets"
    /\ test.circuit_instance
    /\ Len(test.sub_circuit_drill_downs) < MaxDrillDowns
    /\ \E comp \in SubComponents :
          test' = [test EXCEPT !.sub_circuit_drill_downs =
                      <<[comp |-> comp, live |-> TRUE]>> \o @]
    /\ hist' = [op |-> "drill_down", drawn |-> <<>>]
    /\ pc' = "drill_downs"
    /\ UNCHANGED <<desc, pin_nodes, pin_values, dirty, status, passes, parser>>

\* a frame without a click on these widgets
DrillNoClick ==
    /\ pc = "widgets"
    /\ hist' = [op |-> "none", drawn |-> <<>>]
    /\ pc' = "drill_downs"
    /\ UNCHANGED <<desc, pin_nodes, pin_values, dirty, status, passes, parser, test>>

\* the loop over the drill-downs: each is drawn, and erased if its window
\* was closed
DrillDraw ==
    /\ pc = "drill_downs"
    /\ \E keep_open \in [DOMAIN test.sub_circuit_drill_downs -> BOOLEAN] :
          /\ Cardinality({k \in DOMAIN keep_open : ~keep_open[k]}) <= 1
          /\ \E kept \in {SelectSeq([k \in DOMAIN keep_open |-> k],
                                    LAMBDA k : keep_open[k])} :
                test' = [test EXCEPT !.sub_circuit_drill_downs =
                            [j \in DOMAIN kept |-> @[kept[j]]]]
    /\ hist' = [op |-> "draw", drawn |-> test.sub_circuit_drill_downs]
    /\ pc' = "widgets"
    /\ UNCHANGED <<desc, pin_nodes, pin_values, dirty, status, passes, parser>>

NextDrill ==
    \/ DrillCloseLibrary
    \/ DrillEditor
    \/ DrillSimulation
    \/ DrillOpen
    \/ DrillNoClick
    \/ DrillDraw

SpecDrill == InitDrill /\ [][NextDrill]_vars

\* C32: every drill-down window that is drawn refers to a nested instance
\* owned by the current circuit instance: once that instance is discarded
\* (Editor, a Simulation click that instantiates again, library close) no
\* drill-down that refers to it is drawn.
C32_DrillDownsLive ==
    hist.op = "draw" =>
        \A k \in DOMAIN hist.drawn : hist.drawn[k].live

-----------------------------------------------------------------------------
(* SpecEditor: the interactive editor of a UICircuit. A UI component is    *)
(* known by its address, nullptr is no UI component.                       *)

CS_IDLE == "CS_IDLE"
CS_CREATE_COMPONENT == "CS_CREATE_COMPONENT"
CS_CREATE_WIRE == "CS_CREATE_WIRE"
CS_DRAGGING == "CS_DRAGGING"

\* the address of the UI component made for the component with the given id
UIComponent(comp_id) == comp_id + 1

\* UIComponent::component
component_of(ui_comp) == ui_comp - 1

\* UICircuit::UICircuit
UICircuit(d) == [m_state |-> CS_IDLE, m_ui_components |-> <<>>, m_selection |-> <<>>]

\* UICircuit::create_component; the new UI component is the last one
UICircuit_create_component(ui, comp_id) ==
    [ui EXCEPT !.m_ui_components = Append(@, UIComponent(comp_id))]

\* UICircuit::remove_component
UICircuit_remove_component(ui, ui_comp) ==
    [ui EXCEPT !.m_ui_components = SelectSeq(@, LAMBDA uc : uc # ui_comp)]

\* UICircuitBuilder::create_circuit: one UI component per component
ui_create_circuit(d) ==
    [UICircuit(d) EXCEPT !.m_ui_components =
        [k \in DOMAIN d.m_components |-> UIComponent(d.m_components[k].m_id)]]

is_selected(ui, ui_comp) ==
    \E k \in DOMAIN ui.m_selection : ui.m_selection[k] = ui_comp

clear_selection(ui) == [ui EXCEPT !.m_selection = <<>>]

select_component(ui, ui_comp) ==
    IF is_selected(ui, ui_comp) THEN ui
    ELSE [ui EXCEPT !.m_selection = Append(@, ui_comp)]

deselect_component(ui, ui_comp) ==
    [ui EXCEPT !.m_selection = SelectSeq(@, LAMBDA s : s # ui_comp)]

toggle_selection(ui, ui_comp) ==
    IF is_selected(ui, ui_comp) THEN deselect_component(ui, ui_comp)
    ELSE select_component(ui, ui_comp)

RECURSIVE remove_selected(_, _)
remove_selected(ui, k) ==
    IF k > Len(ui.m_selection) THEN ui
    ELSE remove_selected(UICircuit_remove_component(ui, ui.m_selection[k]), k + 1)

\* UICircuit::delete_selected_components: the UI components of the selection
\* are removed from the UI circuit, the description is not touched
delete_selected_components(ui) == clear_selection(remove_selected(ui, 1))

\* UICircuit::create_wire: it returns when the wire ends where it starts, and
\* everything after that is commented out
ui_create_wire(ui) == ui

\* UICircuit::ui_create_component
ui_create_component(ui, comp_id) ==
    LET made == UICircuit_create_component([ui EXCEPT !.m_state = CS_CREATE_COMPONENT],
                                           comp_id)
    IN  select_component(clear_selection(made),
                         made.m_ui_components[Len(made.m_ui_components)])

\* the state and the record of m_state assignments while a handler runs
Goto(r, to, by) ==
    [ui |-> [r.ui EXCEPT !.m_state = to],
     transitions |-> Append(r.transitions,
                            [from |-> r.ui.m_state, to |-> to, by |-> by])]

On(r, ui) == [r EXCEPT !.ui = ui]

\* what ImGui reports in one frame: the left button is clicked (also on a
\* double click), released or dragging, never two of them
LeftButton == {"none", "clicked", "double_clicked", "released", "dragging"}

FrameInputs(ui) ==
    {in \in [mouse_in_window : BOOLEAN, left : LeftButton, clicked1 : BOOLEAN,
             delete : BOOLEAN, hovered_pin : BOOLEAN,
             hovered_component : {nullptr} \cup {ui.m_ui_components[k] :
                                                 k \in DOMAIN ui.m_ui_components},
             at_wire_start : BOOLEAN, KeyShift : BOOLEAN] :
        /\ in.hovered_pin => ui.m_ui_components # <<>>
        \* what the handler does not read in a frame is left at its default
        /\ in.hovered_pin => in.left \in {"clicked", "double_clicked"}
        /\ in.hovered_component # nullptr =>
              in.left \in {"clicked", "double_clicked", "released"}
        /\ in.at_wire_start =>
              ui.m_state = CS_CREATE_WIRE /\ in.left \in {"clicked", "double_clicked"}
        /\ in.KeyShift => in.left = "released"
        /\ ~in.mouse_in_window =>
              ~in.clicked1 /\ in.left \in {"none", "dragging"}}

\* the wires are not drawn (the loop is commented out): no wire is hovered
m_hovered_wire == nullptr

\* -> left mouse button down
draw_left_down(r, in) ==
    IF ~(in.mouse_in_window /\ in.left \in {"clicked", "double_clicked"}) THEN r
    ELSE IF r.ui.m_state = CS_CREATE_COMPONENT THEN Goto(r, CS_IDLE, "left click")
    ELSE IF r.ui.m_state = CS_IDLE /\ in.hovered_pin
         THEN Goto(r, CS_CREATE_WIRE, "pin")
    ELSE IF r.ui.m_state = CS_IDLE /\ m_hovered_wire # nullptr
         THEN Goto(r, CS_CREATE_WIRE, "wire")
    ELSE IF /\ r.ui.m_state = CS_IDLE
            /\ ~in.hovered_pin
            /\ m_hovered_wire = nullptr
            /\ in.hovered_component = nullptr
         THEN On(r, clear_selection(r.ui))
    ELSE IF r.ui.m_state = CS_CREATE_WIRE /\ ~in.at_wire_start
         THEN IF in.hovered_pin \/ m_hovered_wire # nullptr
              THEN Goto(On(r, ui_create_wire(r.ui)), CS_IDLE, "wire end")
              ELSE r
    ELSE r

\* -> left mouse button up; the wire started on is never the hovered wire
draw_left_up(r, in) ==
    IF ~(in.mouse_in_window /\ in.left = "released") THEN r
    ELSE IF r.ui.m_state = CS_IDLE /\ in.hovered_component # nullptr
         THEN IF ~in.KeyShift
              THEN On(r, select_component(clear_selection(r.ui), in.hovered_component))
              ELSE On(r, toggle_selection(r.ui, in.hovered_component))
    ELSE IF r.ui.m_state = CS_CREATE_WIRE /\ m_hovered_wire # nullptr
         THEN Goto(r, CS_IDLE, "wire selection")
    ELSE r

\* -> right mouse button down
draw_right_down(r, in) ==
    IF in.mouse_in_window /\ in.clicked1 /\ r.ui.m_state = CS_CREATE_WIRE
    THEN Goto(r, CS_IDLE, "right click")
    ELSE r

\* -> double-clicking
draw_double_click(r, in) ==
    IF in.mouse_in_window /\ in.left = "double_clicked" /\ r.ui.m_state = CS_CREATE_WIRE
    THEN Goto(On(r, ui_create_wire(r.ui)), CS_IDLE, "double click")
    ELSE r

\* -> keyboard
draw_keyboard(r, in) ==
    IF in.delete THEN On(r, delete_selected_components(r.ui)) ELSE r

\* start dragging, handle end of dragging
draw_dragging(r, in) ==
    LET started == IF /\ in.mouse_in_window
                      /\ r.ui.m_state = CS_IDLE
                      /\ in.left = "dragging"
                   THEN Goto(r, CS_DRAGGING, "dragging")
                   ELSE r
    IN  IF started.ui.m_state = CS_DRAGGING /\ in.left # "dragging"
        THEN Goto(started, CS_IDLE, "dragging ended")
        ELSE started

\* UICircuit::draw, the input handling
draw(ui, in) ==
    draw_dragging(
      draw_keyboard(
        draw_double_click(
          draw_right_down(
            draw_left_up(
              draw_left_down([ui |-> ui, transitions |-> <<>>], in), in), in), in), in), in)

\* the descriptions an editor is opened on
EditorCircuits ==
    {CircuitDescription("main"), add_and_gate(CircuitDescription("main"), 2, 0)}

NoFrame ==
    [op |-> "start", from |-> CS_IDLE, left |-> FALSE, right |-> FALSE,
     double |-> FALSE, target |-> FALSE, dragging |-> FALSE, delete |-> FALSE,
     transitions |-> <<>>]

InitEditor ==
    /\ desc \in EditorCircuits
    /\ pin_nodes = <<>>
    /\ pin_values = <<>>
    /\ dirty = {}
    /\ status = "idle"
    /\ passes = 0
    /\ pc = "editor"
    /\ hist = NoFrame
    /\ parser = <<>>
    /\ test = ui_create_circuit(desc)

\* a button of the component palette, clicked while no simulation is going on;
\* a button is clicked with a press and a release on it, so not during a drag
EditorPalette ==
    /\ desc.m_component_id < MaxComponents
    /\ test.m_state # CS_DRAGGING
    /\ \E button \in {"AND", "Input"} :
          /\ desc' = create_func(desc, button)
          /\ \E r \in {Goto([ui |-> ui_create_component(test, desc.m_component_id),
                             transitions |-> <<>>],
                            CS_CREATE_COMPONENT, "palette")} :
                /\ test' = r.ui
                /\ hist' = [NoFrame EXCEPT !.op = "palette", !.from = test.m_state,
                               !.transitions =
                                   <<[r.transitions[1] EXCEPT !.from = test.m_state]>>]
    /\ UNCHANGED <<pin_nodes, pin_values, dirty, status, passes, pc, parser>>

\* one frame: UICircuit::draw with what ImGui reports
EditorDraw ==
    /\ \E in \in FrameInputs(test) :
          \E r \in {draw(test, in)} :
             /\ test' = r.ui
             /\ hist' = [op |-> "draw", from |-> test.m_state,
                         left |-> in.mouse_in_window
                                  /\ in.left \in {"clicked", "double_clicked"},
                         right |-> in.mouse_in_window /\ in.clicked1,
                         double |-> in.mouse_in_window /\ in.left = "double_clicked",
                         target |-> in.hovered_pin /\ ~in.at_wire_start,
                         dragging |-> in.left = "dragging",
                         delete |-> in.delete,
                         transitions |-> r.transitions]
    /\ UNCHANGED <<desc, pin_nodes, pin_values, dirty, status, passes, pc, parser>>

NextEditor ==
    \/ EditorPalette
    \/ EditorDraw

SpecEditor == InitEditor /\ [][NextEditor]_vars

Interactions == {CS_CREATE_COMPONENT, CS_CREATE_WIRE, CS_DRAGGING}

\* some assignment of the last handler left the state `from`
Left(from) ==
    \E k \in DOMAIN hist.transitions :
        hist.transitions[k].from = from /\ hist.transitions[k].to # from

\* C35: the editor performs one interaction at a time. CS_CREATE_WIRE and
\* CS_DRAGGING are entered only from CS_IDLE; CS_CREATE_COMPONENT ends with
\* the next left click; CS_CREATE_WIRE ends with a right click, a double
\* click or a click on a pin or wire away from the wire's start, and with
\* nothing else; CS_DRAGGING ends as soon as the mouse is no longer
\* dragging; each of them returns to CS_IDLE.
C35_OneInteraction ==
    /\ \A k \in DOMAIN hist.transitions :
          LET t == hist.transitions[k]
          IN  /\ (t.to \in {CS_CREATE_WIRE, CS_DRAGGING} /\ t.from # t.to)
                    => t.from = CS_IDLE
              /\ (t.from \in Interactions /\ t.to # t.from) => t.to = CS_IDLE
              /\ (t.from = CS_CREATE_WIRE /\ t.to # t.from)
                    => t.by \in {"right click", "double click", "wire end"}
    /\ (hist.op = "draw" /\ hist.from = CS_CREATE_COMPONENT /\ hist.left)
          => Left(CS_CREATE_COMPONENT)
    /\ (hist.op = "draw" /\ hist.from = CS_CREATE_WIRE
          /\ (hist.right \/ hist.double \/ (hist.left /\ hist.target)))
          => Left(CS_CREATE_WIRE)
    /\ (hist.op = "draw" /\ hist.from = CS_DRAGGING /\ ~hist.dragging)
          => Left(CS_DRAGGING)

\* C36: the UI components of a UICircuit correspond one-to-one to the
\* components of its description: a component is in the description iff it
\* has a UI component, no component has two, and the selection is empty
\* after a delete.
C36_UiMatchesDescription ==
    /\ {component_of(test.m_ui_components[k]) : k \in DOMAIN test.m_ui_components}
          = {desc.m_components[k].m_id : k \in DOMAIN desc.m_components}
    /\ \A j, k \in DOMAIN test.m_ui_components :
          test.m_ui_components[j] = test.m_ui_components[k] => j = k
    /\ (hist.op = "draw" /\ hist.delete) => test.m_selection = <<>>

-----------------------------------------------------------------------------
(* SpecIds: the ids a description hands out while components and wires are *)
(* created and removed.                                                    *)

\* remove_component(id): the component leaves the description and its pins
\* leave the wires; the ids of the other components stay
remove_component(d, id) ==
    [d EXCEPT !.m_components = SelectSeq(@, LAMBDA c : c.m_id # id),
              !.m_wires = [k \in DOMAIN @ |->
                  [@[k] EXCEPT !.m_pins = SelectSeq(@, LAMBDA p : p[1] # id)]]]

\* the ids handed out so far, in the order they were given
NoIds == [components |-> <<>>, wires |-> <<>>]

InitIds ==
    /\ desc = CircuitDescription("main")
    /\ pin_nodes = <<>>
    /\ pin_values = <<>>
    /\ dirty = {}
    /\ status = "idle"
    /\ passes = 0
    /\ pc = "edit"
    /\ hist = [op |-> "start"]
    /\ parser = <<>>
    /\ test = NoIds

\* create_component, directly or through an add_* function; the caller gets
\* the component made last
IdsCreateComponent ==
    /\ desc.m_component_id < MaxComponents
    /\ \E d \in {create_component(desc, "CONNECTOR_IN", 0, 1, 0, 0),
                 add_and_gate(desc, 2, 0)} :
          /\ desc' = d
          /\ test' = [test EXCEPT !.components =
                         Append(@, d.m_components[Len(d.m_components)].m_id)]
    /\ hist' = [op |-> "create_component"]
    /\ UNCHANGED <<pin_nodes, pin_values, dirty, status, passes, pc, parser>>

IdsCreateWire ==
    /\ desc.m_wire_id < MaxWireIds
    /\ \E d \in {create_wire(desc)} :
          /\ desc' = d
          /\ test' = [test EXCEPT !.wires = Append(@, d.m_wires[Len(d.m_wires)].m_id)]
    /\ hist' = [op |-> "create_wire"]
    /\ UNCHANGED <<pin_nodes, pin_values, dirty, status, passes, pc, parser>>

\* connect(pin_a, pin_b) of the first pins of two components
IdsConnect ==
    /\ desc.m_wire_id < MaxWireIds
    /\ \E a, b \in Components(desc) :
          \E d \in {connect(desc, <<a.m_id, 0>>, <<b.m_id, 0>>)} :
             /\ desc' = d
             /\ test' = [test EXCEPT !.wires =
                            Append(@, d.m_wires[Len(d.m_wires)].m_id)]
    /\ hist' = [op |-> "connect"]
    /\ UNCHANGED <<pin_nodes, pin_values, dirty, status, passes, pc, parser>>

IdsRemoveWire ==
    /\ \E w \in DOMAIN desc.m_wires : desc' = remove_wire(desc, desc.m_wires[w].m_id)
    /\ hist' = [op |-> "remove_wire"]
    /\ UNCHANGED <<pin_nodes, pin_values, dirty, status, passes, pc, parser, test>>

IdsRemoveComponent ==
    /\ \E c \in Components(desc) : desc' = remove_component(desc, c.m_id)
    /\ hist' = [op |-> "remove_component"]
    /\ UNCHANGED <<pin_nodes, pin_values, dirty, status, passes, pc, parser, test>>

NextIds ==
    \/ IdsCreateComponent
    \/ IdsCreateWire
    \/ IdsConnect
    \/ IdsRemoveWire
    \/ IdsRemoveComponent

SpecIds == InitIds /\ [][NextIds]_vars

\* the ids of a sequence of ids grow from one to the next
Increasing(ids) == \A j, k \in DOMAIN ids : j < k => ids[j] < ids[k]

\* C37: component ids and wire ids come from counters that only increase:
\* no two components of the description share an id, no two wires share an
\* id, and the id of a removed component or wire is never given to a new one.
C37_IdsNeverReused ==
    /\ \A j, k \in DOMAIN desc.m_components :
          desc.m_components[j].m_id = desc.m_components[k].m_id => j = k
    /\ \A j, k \in DOMAIN desc.m_wires :
          desc.m_wires[j].m_id = desc.m_wires[k].m_id => j = k
    /\ Increasing(test.components)
    /\ Increasing(test.wires)
    /\ \A k \in DOMAIN test.components : test.components[k] < desc.m_component_id
    /\ \A k \in DOMAIN test.wires : test.wires[k] < desc.m_wire_id

\* a component and a wire were removed, and a component and a wire created
\* after that are in the description
C37_Witness ==
    /\ Len(test.components) > Len(desc.m_components)
    /\ Len(test.wires) > Len(desc.m_wires)
    /\ \E k \in DOMAIN desc.m_components :
          desc.m_components[k].m_id = test.components[Len(test.components)]
    /\ \E k \in DOMAIN desc.m_wires :
          /\ desc.m_wires[k].m_id = test.wires[Len(test.wires)]
          /\ desc.m_wires[k].m_id > 0
    /\ test.components[1] \notin {desc.m_components[k].m_id : k \in DOMAIN desc.m_components}
    /\ test.wires[1] \notin {desc.m_wires[k].m_id : k \in DOMAIN desc.m_wires}

-----------------------------------------------------------------------------
(* SpecPanel: every button of the component palette, and the property      *)
(* panel on the component selected.                                        *)

\* the buttons of the palette, by their captions
AllPaletteButtons ==
    {"AND", "OR", "NOT", "NAND", "NOR", "XOR", "XNOR", "Buffer", "TriState Buffer",
     "Input", "Output", "Constant", "PullResistor"}

\* the create_func of each button
palette_create_func(d, button) ==
    CASE button = "AND" -> add_and_gate(d, 2, 0)
      [] button = "OR" -> add_or_gate(d, 2, 0)
      [] button = "NOT" -> add_not_gate(d, 0)
      [] button = "NAND" -> add_nand_gate(d, 2, 0)
      [] button = "NOR" -> add_nor_gate(d, 2, 0)
      [] button = "XOR" -> add_xor_gate(d, 0)
      [] button = "XNOR" -> add_xnor_gate(d, 0)
      [] button = "Buffer" -> add_buffer(d, 1, 0)
      [] button = "TriState Buffer" -> add_tristate_buffer(d, 1, 0)
      [] button = "Input" -> add_connector_in(d, "in", 1, FALSE, 0)
      [] button = "Output" -> add_connector_out(d, "out", 1, FALSE, 0)
      [] button = "Constant" -> add_constant(d, VALUE_TRUE, 0)
      [] button = "PullResistor" -> add_pull_resistor(d, VALUE_TRUE, 0)

InitPanel ==
    /\ desc = CircuitDescription("main")
    /\ pin_nodes = <<>>
    /\ pin_values = <<>>
    /\ dirty = {}
    /\ status = "idle"
    /\ passes = 0
    /\ pc = "editor"
    /\ hist = Before0
    /\ parser = <<>>
    /\ test = [selected |-> NoSelection]

\* a button of the palette: the component is created and selected
PanelPalette ==
    /\ desc.m_component_id < MaxComponents
    /\ \E button \in AllPaletteButtons :
          /\ desc' = palette_create_func(desc, button)
          /\ test' = [test EXCEPT !.selected = desc.m_component_id]
    /\ UNCHANGED <<pin_nodes, pin_values, dirty, status, passes, pc, hist, parser>>

NextPanel ==
    \/ PanelPalette
    \/ GuiSelect
    \/ GuiPortDataBits
    \/ GuiBufferDataBits
    \/ GuiGateInputs

SpecPanel == InitPanel /\ [][NextPanel]_vars

\* the pin counts a component of its type has to have
PinsFit(c) ==
    CASE c.m_type \in {"BUFFER", "TRISTATE_BUFFER"} ->
             /\ c.m_outputs = c.m_inputs
             /\ c.m_inputs >= 1
             /\ c.m_type = "TRISTATE_BUFFER" => c.m_controls = 1
      [] c.m_type \in {"AND_GATE", "OR_GATE", "NAND_GATE", "NOR_GATE"} ->
             c.m_inputs >= 2 /\ c.m_outputs = 1
      [] c.m_type = "NOT_GATE" -> c.m_inputs = 1 /\ c.m_outputs = 1
      [] c.m_type \in {"XOR_GATE", "XNOR_GATE"} -> c.m_inputs = 2 /\ c.m_outputs = 1
      [] c.m_type \in {"CONNECTOR_IN", "CONNECTOR_OUT"} ->
             c.m_inputs + c.m_outputs >= 1
      [] OTHER -> TRUE

\* C38: after any sequence of component creations and property-panel edits
\* a buffer or tri-state buffer has as many output pins as input pins and at
\* least one of each (a tri-state buffer exactly one control pin), an
\* AND/OR/NAND/NOR gate at least 2 inputs and exactly 1 output, a NOT gate 1
\* input and an XOR/XNOR gate 2 inputs with 1 output, and a connector at
\* least 1 data bit.
C38_PinCountsFit ==
    \A k \in DOMAIN desc.m_components : PinsFit(desc.m_components[k])

\* the panel widened a tri-state buffer and a NAND gate
C38_Witness ==
    /\ \E k \in DOMAIN desc.m_components :
          /\ desc.m_components[k].m_type = "TRISTATE_BUFFER"
          /\ desc.m_components[k].m_inputs > 1
    /\ \E k \in DOMAIN desc.m_components :
          /\ desc.m_components[k].m_type = "NAND_GATE"
          /\ desc.m_components[k].m_inputs > 2

-----------------------------------------------------------------------------
(* SpecComp: the importer's parse_component on a comp element of every     *)
(* component name it knows.                                                *)

\* the component names the claim speaks of, with the type each stands for
LogisimTypes ==
    [n \in {"Buffer", "NOT Gate", "AND Gate", "OR Gate", "NAND Gate", "NOR Gate",
            "XOR Gate"} |->
        CASE n = "Buffer" -> "BUFFER"
          [] n = "NOT Gate" -> "NOT_GATE"
          [] n = "AND Gate" -> "AND_GATE"
          [] n = "OR Gate" -> "OR_GATE"
          [] n = "NAND Gate" -> "NAND_GATE"
          [] n = "NOR Gate" -> "NOR_GATE"
          [] n = "XOR Gate" -> "XOR_GATE"]

\* the comp elements: every name, also a Pin and a name the importer does
\* not know, at two places, with and without a label
CompElements ==
    {[lib |-> 1, loc |-> Loc(x, 170), name |-> n, a |-> a] :
        x \in {240, 300},
        n \in (DOMAIN LogisimTypes) \cup {"Pin", "Clock"},
        a \in {<<>>, <<[name |-> "label", val |-> "G"]>>}}

InitComp ==
    /\ desc = CircuitDescription("logisim")
    /\ pin_nodes = <<>>
    /\ pin_values = <<>>
    /\ dirty = {}
    /\ status = "idle"
    /\ passes = 0
    /\ pc = "parse_component"
    /\ hist = [op |-> "start", name |-> "", ok |-> TRUE, id |-> 0]
    /\ parser = NewParser
    /\ test = <<>>

\* parse_component on one comp element
CompParse ==
    /\ desc.m_component_id < MaxElements
    /\ \E comp_node \in CompElements :
          \E r \in {parse_component(desc, parser.m_pin_locs, parser.m_circuit_names,
                                    comp_node, 0)} :
             /\ desc' = r.d
             /\ parser' = [parser EXCEPT !.m_pin_locs = r.locs,
                                         !.m_circuit_names = r.names]
             /\ hist' = [op |-> "parse_component", name |-> comp_node.name,
                         ok |-> r.ok, id |-> desc.m_component_id]
    /\ UNCHANGED <<pin_nodes, pin_values, dirty, status, passes, pc, test>>

NextComp == CompParse

SpecComp == InitComp /\ [][NextComp]_vars

\* the pin has a location in m_pin_locs
Located(pin) == \E l \in DOMAIN parser.m_pin_locs : parser.m_pin_locs[l] = pin

\* C39: for every supported component name the importer creates a component
\* with the same logic function (Buffer a buffer, NOT Gate a NOT gate, AND
\* Gate an AND gate, OR Gate an OR gate, NAND Gate a gate computing NAND, NOR
\* Gate a gate computing NOR, XOR Gate an XOR gate), each with all of its
\* input and output pins registered at a location.
C39_ImportKeepsFunction ==
    (hist.op = "parse_component" /\ hist.name \in DOMAIN LogisimTypes) =>
        /\ hist.ok
        /\ hist.id + 1 \in DOMAIN desc.m_components
        /\ LET c == desc.m_components[hist.id + 1]
           IN  /\ c.m_type = LogisimTypes[hist.name]
               /\ \A i \in 0 .. (NumPins(c) - 1) : Located(pin_id(c, i))

====
